---- MODULE Spec2Model ----
(***************************************************************************)
(* Gomentum: the Task Store (internal/planner), the Tool Gateway           *)
(* (internal/mcp), the Agent Loop (internal/agent), the reminder goroutine *)
(* (internal/tui) and their callers, as a state machine.                   *)
(*                                                                         *)
(* Time is a discrete clock 0..MaxTime; a time.Time is the instant it      *)
(* denotes, and the SQL comparisons on start_time / end_time compare       *)
(* instants.  The tasks table is a function from row id to row; a scan     *)
(* without ORDER BY visits the rows in rowid order.                        *)
(***************************************************************************)
EXTENDS Integers, Sequences, FiniteSets, TLC

\* ------------------------------------------------------------------ bounds

\* The clock runs over 0..MaxTime.
MaxTime == 3

\* AUTOINCREMENT stops handing out ids after MaxID (the model's bound on inserts).
MaxID == 2

\* Clock ticks per day: Format("15:04") prints the time of day only.
DayTicks == 2

\* Chat calls and model requests stop once the history holds MaxHistory messages.
MaxHistory == 8

\* The count of notifications of a task stops at MaxNotices.
MaxNotices == 2

\* The user submits at most MaxTurns inputs, and a Chat call produces at
\* most MaxTokens tokens.
MaxTurns == 2

MaxTokens == 2

Times == 0..MaxTime

IDs == 1..MaxID

\* ------------------------------------------------------------------- state

VARIABLES
    db,     \* the SQLite database: [rows: id -> row of table tasks, seq: sqlite_sequence]
    dbOK,   \* whether the database answers (FALSE: every Exec/Query returns an error)
    now,    \* the wall clock read by time.Now()
    last,   \* the call that has just returned: [op, args, ret]; NoCall once
            \* the caller has taken the result
    prev,   \* the database as it was before that call
    agent,  \* the OpenAIAgent: its history and the position of its Chat call
    sched,  \* the reminder goroutine: its position in startReminder
    tui     \* the Bubble Tea model, the channels it made and the goroutines
            \* and commands that run beside its Update loop

vars == <<db, dbOK, now, last, prev, agent, sched, tui>>

\* ------------------------------------------------------------ planner.Task

Nil == "nil"

ZeroTime == 0 - 1

StatusPending == "pending"

StatusInProgress == "in_progress"

StatusCompleted == "completed"

Statuses == {StatusPending, StatusInProgress, StatusCompleted}

\* Task{}: the zero value returned beside an error.
EmptyTask ==
    [id |-> 0, title |-> "", description |-> "", start_time |-> ZeroTime,
     end_time |-> ZeroTime, status |-> "", reminded |-> FALSE]

\* rows.Scan / row.Scan of one row into a Task.
Scan(p, id) ==
    [id |-> id,
     title |-> p.rows[id].title,
     description |-> p.rows[id].description,
     start_time |-> p.rows[id].start_time,
     end_time |-> p.rows[id].end_time,
     status |-> p.rows[id].status,
     reminded |-> p.rows[id].reminded]

\* The table created by NewPlanner on a fresh file: no rows, sqlite_sequence at 0.
NewPlanner == [rows |-> [i \in {} |-> EmptyTask], seq |-> 0]

\* The ids of a set in ascending order: the order of a table scan.
RECURSIVE Ascending(_)
Ascending(S) ==
    IF S = {} THEN <<>>
    ELSE LET m == CHOOSE x \in S : \A y \in S : x <= y
         IN <<m>> \o Ascending(S \ {m})

\* ---------------------------------------------------------- planner.Planner
\* Each method is an operator on the database p; it returns the database it
\* leaves, the method's return value and its error (Nil: no error).

ErrInsert == "failed to insert task"

ErrQuery == "failed to query tasks"

ErrDatabase == "database error"

ErrNotFound == "task not found"

ErrScan == "failed to scan task"

ErrUpdate == "failed to update task"

ErrDelete == "failed to delete task"

ErrExec == "exec failed"

\* AddTask binding start to both time columns.
AddTaskStartTwice(p, title, description, start, end) ==
    IF ~dbOK THEN [p |-> p, task |-> EmptyTask, err |-> ErrInsert]
    ELSE LET id == p.seq + 1
             row == [title |-> title, description |-> description,
                     start_time |-> start, end_time |-> start,
                     status |-> StatusPending, reminded |-> FALSE]
         IN [p |-> [rows |-> (id :> row) @@ p.rows, seq |-> id],
             task |-> [id |-> id, title |-> title, description |-> description,
                       start_time |-> start, end_time |-> end,
                       status |-> StatusPending, reminded |-> FALSE],
             err |-> Nil]

\* AddTask on a table whose sequence is not advanced: the next insert gets the
\* same id again.
AddTaskSequenceStuck(p, title, description, start, end) ==
    IF ~dbOK THEN [p |-> p, task |-> EmptyTask, err |-> ErrInsert]
    ELSE LET id == p.seq + 1
             row == [title |-> title, description |-> description,
                     start_time |-> start, end_time |-> end,
                     status |-> StatusPending, reminded |-> FALSE]
         IN [p |-> [rows |-> (id :> row) @@ p.rows, seq |-> p.seq],
             task |-> [id |-> id, title |-> title, description |-> description,
                       start_time |-> start, end_time |-> end,
                       status |-> StatusPending, reminded |-> FALSE],
             err |-> Nil]

\* INSERT INTO tasks (...) VALUES (?, ?, ?, ?, 'pending', 0); the id is the
\* AUTOINCREMENT rowid: one more than the largest id ever handed out.
\* AddTask on a table whose ids start at 0.
AddTaskZeroBased(p, title, description, start, end) ==
    IF ~dbOK THEN [p |-> p, task |-> EmptyTask, err |-> ErrInsert]
    ELSE LET id == p.seq
             row == [title |-> title, description |-> description,
                     start_time |-> start, end_time |-> end,
                     status |-> StatusPending, reminded |-> FALSE]
         IN [p |-> [rows |-> (id :> row) @@ p.rows, seq |-> id + 1],
             task |-> [id |-> id, title |-> title, description |-> description,
                       start_time |-> start, end_time |-> end,
                       status |-> StatusPending, reminded |-> FALSE],
             err |-> Nil]

AddTask(p, title, description, start, end) ==
    IF ~dbOK THEN [p |-> p, task |-> EmptyTask, err |-> ErrInsert]
    ELSE LET id == p.seq + 1
             row == [title |-> title, description |-> description,
                     start_time |-> start, end_time |-> end,
                     status |-> StatusPending, reminded |-> FALSE]
         IN [p |-> [rows |-> (id :> row) @@ p.rows, seq |-> id],
             task |-> [id |-> id, title |-> title, description |-> description,
                       start_time |-> start, end_time |-> end,
                       status |-> StatusPending, reminded |-> FALSE],
             err |-> Nil]

\* The listing without its ORDER BY clause: rowid order.
OrderByRowid(p, S) == Ascending(S)

\* The ids of S ordered by start_time ascending (rows of equal start_time in
\* rowid order).
RECURSIVE OrderByStartTime(_, _)
OrderByStartTime(p, S) ==
    IF S = {} THEN <<>>
    ELSE LET m == CHOOSE x \in S : \A y \in S :
                      \/ p.rows[x].start_time < p.rows[y].start_time
                      \/ /\ p.rows[x].start_time = p.rows[y].start_time
                         /\ x <= y
         IN <<m>> \o OrderByStartTime(p, S \ {m})

\* SELECT ... FROM tasks ORDER BY start_time ASC
ListTasks(p) ==
    IF ~dbOK THEN [tasks |-> <<>>, err |-> ErrQuery]
    ELSE LET ids == OrderByStartTime(p, DOMAIN p.rows)
         IN [tasks |-> [i \in 1..Len(ids) |-> Scan(p, ids[i])], err |-> Nil]

\* GetUpcomingTasks without the status filter.
GetUpcomingTasksAnyStatus(p, d) ==
    IF ~dbOK THEN [tasks |-> <<>>, err |-> ErrQuery]
    ELSE LET target == now + d
             Due(id) == /\ p.rows[id].start_time <= target
                        /\ p.rows[id].reminded = FALSE
             ids == SelectSeq(Ascending(DOMAIN p.rows), Due)
         IN [tasks |-> [i \in 1..Len(ids) |-> Scan(p, ids[i])], err |-> Nil]

\* GetUpcomingTasks without `reminded = 0` in its WHERE clause.
GetUpcomingTasksRepeating(p, d) ==
    IF ~dbOK THEN [tasks |-> <<>>, err |-> ErrQuery]
    ELSE LET target == now + d
             Due(id) == /\ p.rows[id].start_time <= target
                        /\ p.rows[id].status # StatusCompleted
             ids == SelectSeq(Ascending(DOMAIN p.rows), Due)
         IN [tasks |-> [i \in 1..Len(ids) |-> Scan(p, ids[i])], err |-> Nil]

\* SELECT ... WHERE start_time <= ? AND reminded = 0 AND status != 'completed'
\* with ? = time.Now().Add(d)
GetUpcomingTasks(p, d) ==
    IF ~dbOK THEN [tasks |-> <<>>, err |-> ErrQuery]
    ELSE LET target == now + d
             Due(id) == /\ p.rows[id].start_time <= target
                        /\ p.rows[id].reminded = FALSE
                        /\ p.rows[id].status # StatusCompleted
             ids == SelectSeq(Ascending(DOMAIN p.rows), Due)
         IN [tasks |-> [i \in 1..Len(ids) |-> Scan(p, ids[i])], err |-> Nil]

\* MarkAsReminded without its WHERE clause: every row is marked.
MarkAsRemindedEveryRow(p, id) ==
    IF ~dbOK THEN [p |-> p, err |-> ErrExec]
    ELSE [p |-> [p EXCEPT !.rows =
                    [i \in DOMAIN p.rows |-> [p.rows[i] EXCEPT !.reminded = TRUE]]],
          err |-> Nil]

\* UPDATE tasks SET reminded = 1 WHERE id = ?   (rows affected is not looked at)
MarkAsReminded(p, id) ==
    IF ~dbOK THEN [p |-> p, err |-> ErrExec]
    ELSE [p |-> [p EXCEPT !.rows =
                    [i \in DOMAIN p.rows |->
                        IF i = id THEN [p.rows[i] EXCEPT !.reminded = TRUE]
                        ELSE p.rows[i]]],
          err |-> Nil]

\* CheckOverlap binding (excludeID, start, end): the bounds in the wrong order.
CheckOverlapBoundsSwapped(p, start, end, excludeID) ==
    IF ~dbOK THEN [found |-> FALSE, task |-> EmptyTask, err |-> ErrDatabase]
    ELSE LET Hit(id) == /\ id # excludeID
                        /\ p.rows[id].start_time < start
                        /\ p.rows[id].end_time > end
             ids == SelectSeq(Ascending(DOMAIN p.rows), Hit)
         IN IF ids = <<>>
            THEN [found |-> FALSE, task |-> EmptyTask, err |-> Nil]
            ELSE [found |-> TRUE, task |-> Scan(p, Head(ids)), err |-> Nil]

\* CheckOverlap with closed intervals: <= and >= for < and >.
CheckOverlapClosed(p, start, end, excludeID) ==
    IF ~dbOK THEN [found |-> FALSE, task |-> EmptyTask, err |-> ErrDatabase]
    ELSE LET Hit(id) == /\ id # excludeID
                        /\ p.rows[id].start_time <= end
                        /\ p.rows[id].end_time >= start
             ids == SelectSeq(Ascending(DOMAIN p.rows), Hit)
         IN IF ids = <<>>
            THEN [found |-> FALSE, task |-> EmptyTask, err |-> Nil]
            ELSE [found |-> TRUE, task |-> Scan(p, Head(ids)), err |-> Nil]

\* CheckOverlap without the id != ? condition.
CheckOverlapNoExclude(p, start, end, excludeID) ==
    IF ~dbOK THEN [found |-> FALSE, task |-> EmptyTask, err |-> ErrDatabase]
    ELSE LET Hit(id) == /\ p.rows[id].start_time < end
                        /\ p.rows[id].end_time > start
             ids == SelectSeq(Ascending(DOMAIN p.rows), Hit)
         IN IF ids = <<>>
            THEN [found |-> FALSE, task |-> EmptyTask, err |-> Nil]
            ELSE [found |-> TRUE, task |-> Scan(p, Head(ids)), err |-> Nil]

\* SELECT ... WHERE id != ? AND start_time < ? AND end_time > ?
\* with (excludeID, end, start); QueryRow scans the first matching row.
\* found = FALSE is the nil *Task.
CheckOverlap(p, start, end, excludeID) ==
    IF ~dbOK THEN [found |-> FALSE, task |-> EmptyTask, err |-> ErrDatabase]
    ELSE LET Hit(id) == /\ id # excludeID
                        /\ p.rows[id].start_time < end
                        /\ p.rows[id].end_time > start
             ids == SelectSeq(Ascending(DOMAIN p.rows), Hit)
         IN IF ids = <<>>
            THEN [found |-> FALSE, task |-> EmptyTask, err |-> Nil]
            ELSE [found |-> TRUE, task |-> Scan(p, Head(ids)), err |-> Nil]

\* SELECT ... WHERE id = ?
GetTask(p, id) ==
    IF ~dbOK THEN [task |-> EmptyTask, err |-> ErrScan]
    ELSE IF id \notin DOMAIN p.rows THEN [task |-> EmptyTask, err |-> ErrNotFound]
    ELSE [task |-> Scan(p, id), err |-> Nil]

\* UpdateTask resetting reminded only when the window changes.
UpdateTaskResetOnNewWindow(p, t) ==
    IF ~dbOK THEN [p |-> p, err |-> ErrUpdate]
    ELSE IF t.id \notin DOMAIN p.rows THEN [p |-> p, err |-> ErrNotFound]
    ELSE [p |-> [p EXCEPT !.rows[t.id] =
                    [title |-> t.title, description |-> t.description,
                     start_time |-> t.start_time, end_time |-> t.end_time,
                     status |-> t.status,
                     reminded |-> /\ p.rows[t.id].reminded
                                  /\ p.rows[t.id].start_time = t.start_time
                                  /\ p.rows[t.id].end_time = t.end_time]],
          err |-> Nil]

\* UpdateTask as an upsert: a row that is not there is written.
UpdateTaskUpsert(p, t) ==
    IF ~dbOK THEN [p |-> p, err |-> ErrUpdate]
    ELSE [p |-> [p EXCEPT !.rows =
                    (t.id :> [title |-> t.title, description |-> t.description,
                              start_time |-> t.start_time, end_time |-> t.end_time,
                              status |-> t.status, reminded |-> FALSE]) @@ p.rows],
          err |-> IF t.id \in DOMAIN p.rows THEN Nil ELSE ErrNotFound]

\* UPDATE tasks SET title = ?, description = ?, start_time = ?, end_time = ?,
\*                  status = ?, reminded = 0 WHERE id = ?
UpdateTask(p, t) ==
    IF ~dbOK THEN [p |-> p, err |-> ErrUpdate]
    ELSE IF t.id \notin DOMAIN p.rows THEN [p |-> p, err |-> ErrNotFound]
    ELSE [p |-> [p EXCEPT !.rows[t.id] =
                    [title |-> t.title, description |-> t.description,
                     start_time |-> t.start_time, end_time |-> t.end_time,
                     status |-> t.status, reminded |-> FALSE]],
          err |-> Nil]

\* DeleteTask without its WHERE clause: every row goes.
DeleteTaskEveryRow(p, id) ==
    IF ~dbOK THEN [p |-> p, err |-> ErrDelete]
    ELSE IF id \notin DOMAIN p.rows THEN [p |-> p, err |-> ErrNotFound]
    ELSE [p |-> [p EXCEPT !.rows = [i \in {} |-> p.rows[i]]], err |-> Nil]

\* DELETE FROM tasks WHERE id = ?
DeleteTask(p, id) ==
    IF ~dbOK THEN [p |-> p, err |-> ErrDelete]
    ELSE IF id \notin DOMAIN p.rows THEN [p |-> p, err |-> ErrNotFound]
    ELSE [p |-> [p EXCEPT !.rows = [i \in DOMAIN p.rows \ {id} |-> p.rows[i]]],
          err |-> Nil]

ErrCreate == "open: no such file or directory"

\* os.Create(filename) succeeds: the file's directory exists and can be
\* written.  The file system is not part of the state: a path under a
\* directory that does not exist stands for every path os.Create refuses.
CanCreate(filename) == filename # "/no/such/dir/plan.md"

\* ExportToMarkdown: the listing, then the file; its error.  What is written
\* to the file is outside the model.
ExportToMarkdown(p, filename) ==
    LET r == ListTasks(p)
    IN IF r.err # Nil THEN r.err
       ELSE IF ~CanCreate(filename) THEN ErrCreate
       ELSE Nil

\* ------------------------------------------------------------- mcp.Server
\* A tool's arguments are a map[string]interface{}: a function from the keys
\* given to JSON values.

Str(s) == [type |-> "string", v |-> s]

Bool(b) == [type |-> "bool", v |-> b]

Num(n) == [type |-> "number", v |-> n]

\* A key the caller leaves out.
Absent == [type |-> "absent"]

NoArgs == [k \in {} |-> Absent]

\* The map holding the given <<key, value>> pairs, absent values left out.
RECURSIVE MakeArgs(_)
MakeArgs(pairs) ==
    IF pairs = <<>> THEN NoArgs
    ELSE IF Head(pairs)[2] = Absent THEN MakeArgs(Tail(pairs))
    ELSE (Head(pairs)[1] :> Head(pairs)[2]) @@ MakeArgs(Tail(pairs))

\* v, ok := args[k].(string)
StringArg(args, k) ==
    IF k \in DOMAIN args /\ args[k].type = "string"
    THEN [v |-> args[k].v, ok |-> TRUE]
    ELSE [v |-> "", ok |-> FALSE]

\* v, ok := args[k].(bool)
BoolArg(args, k) ==
    IF k \in DOMAIN args /\ args[k].type = "bool"
    THEN [v |-> args[k].v, ok |-> TRUE]
    ELSE [v |-> FALSE, ok |-> FALSE]

\* v, ok := args[k].(float64)
Float64Arg(args, k) ==
    IF k \in DOMAIN args /\ args[k].type = "number"
    THEN [v |-> args[k].v, ok |-> TRUE]
    ELSE [v |-> 0, ok |-> FALSE]

\* The RFC3339 text of each instant of the clock: TimeText[t + 1] is instant t.
TimeText ==
    <<"2025-03-10T09:00:00+08:00", "2025-03-10T10:00:00+08:00",
      "2025-03-10T11:00:00+08:00", "2025-03-10T12:00:00+08:00",
      "2025-03-10T13:00:00+08:00", "2025-03-10T14:00:00+08:00",
      "2025-03-10T15:00:00+08:00", "2025-03-10T16:00:00+08:00">>

\* The instant each text of TimeText denotes.
InstantOf ==
    [s \in {TimeText[i] : i \in 1..Len(TimeText)} |->
        (CHOOSE i \in 1..Len(TimeText) : TimeText[i] = s) - 1]

\* time.Parse(time.RFC3339, s): any other text is an error.
ParseRFC3339(s) ==
    IF s \in DOMAIN InstantOf
    THEN [t |-> InstantOf[s], ok |-> TRUE]
    ELSE [t |-> ZeroTime, ok |-> FALSE]

\* t.Format(time.RFC3339)
FormatRFC3339(t) == TimeText[t + 1]

\* t.Format("15:04"): the time of day, without the date.
Format1504(t) == t % DayTicks

\* mcp.NewToolResultText
NewToolResultText(text) == [isError |-> FALSE, text |-> text]

\* mcp.NewToolResultError
NewToolResultError(text) == [isError |-> TRUE, text |-> text]

\* What a handler returns: the database it leaves, the result, a nil error.
Handled(p, result) == [p |-> p, result |-> result, err |-> Nil]

\* "Time conflict with existing task: '%s' (ID: %d) from %s to %s. Set allow_overlap=true to force."
ConflictText(conflict) ==
    [msg |-> "Time conflict with existing task",
     title |-> conflict.title, id |-> conflict.id,
     from |-> Format1504(conflict.start_time), to |-> Format1504(conflict.end_time)]

handleCurrentTime(p, args) ==
    Handled(p, NewToolResultText([local_time |-> FormatRFC3339(now)]))

\* handleAddTask that never looks for a conflict.
handleAddTaskUnchecked(p, args) ==
    LET title == StringArg(args, "title").v
        desc == StringArg(args, "description").v
        start == ParseRFC3339(StringArg(args, "start_time").v)
        end == ParseRFC3339(StringArg(args, "end_time").v)
    IN IF ~start.ok
       THEN Handled(p, NewToolResultError([msg |-> "Invalid start_time format"]))
       ELSE IF ~end.ok
       THEN Handled(p, NewToolResultError([msg |-> "Invalid end_time format"]))
       ELSE LET r == AddTask(p, title, desc, start.t, end.t)
            IN IF r.err # Nil
               THEN Handled(p, NewToolResultError([msg |-> "Failed to add task", err |-> r.err]))
               ELSE Handled(r.p, NewToolResultText(
                        [msg |-> "Task added", id |-> r.task.id, title |-> r.task.title]))

\* handleAddTask that looks for a conflict whatever allow_overlap says.
handleAddTaskAlwaysChecked(p, args) ==
    LET title == StringArg(args, "title").v
        desc == StringArg(args, "description").v
        start == ParseRFC3339(StringArg(args, "start_time").v)
        end == ParseRFC3339(StringArg(args, "end_time").v)
    IN IF ~start.ok
       THEN Handled(p, NewToolResultError([msg |-> "Invalid start_time format"]))
       ELSE IF ~end.ok
       THEN Handled(p, NewToolResultError([msg |-> "Invalid end_time format"]))
       ELSE LET conflict == CheckOverlap(p, start.t, end.t, 0)
            IN IF conflict.err # Nil
               THEN Handled(p, NewToolResultError(
                        [msg |-> "Failed to check overlap", err |-> conflict.err]))
               ELSE IF conflict.found
               THEN Handled(p, NewToolResultError(ConflictText(conflict.task)))
               ELSE LET r == AddTask(p, title, desc, start.t, end.t)
                    IN IF r.err # Nil
                       THEN Handled(p, NewToolResultError(
                                [msg |-> "Failed to add task", err |-> r.err]))
                       ELSE Handled(r.p, NewToolResultText(
                                [msg |-> "Task added", id |-> r.task.id,
                                 title |-> r.task.title]))

\* handleAddTask that rejects a window that starts after it ends.
handleAddTaskOrdered(p, args) ==
    LET title == StringArg(args, "title").v
        desc == StringArg(args, "description").v
        start == ParseRFC3339(StringArg(args, "start_time").v)
        end == ParseRFC3339(StringArg(args, "end_time").v)
        allowOverlap == BoolArg(args, "allow_overlap").v
    IN IF ~start.ok
       THEN Handled(p, NewToolResultError([msg |-> "Invalid start_time format"]))
       ELSE IF ~end.ok
       THEN Handled(p, NewToolResultError([msg |-> "Invalid end_time format"]))
       ELSE IF start.t > end.t
       THEN Handled(p, NewToolResultError([msg |-> "Invalid end_time format"]))
       ELSE LET conflict == CheckOverlap(p, start.t, end.t, 0)
            IN IF ~allowOverlap /\ conflict.err # Nil
               THEN Handled(p, NewToolResultError(
                        [msg |-> "Failed to check overlap", err |-> conflict.err]))
               ELSE IF ~allowOverlap /\ conflict.found
               THEN Handled(p, NewToolResultError(ConflictText(conflict.task)))
               ELSE LET r == AddTask(p, title, desc, start.t, end.t)
                    IN IF r.err # Nil
                       THEN Handled(p, NewToolResultError(
                                [msg |-> "Failed to add task", err |-> r.err]))
                       ELSE Handled(r.p, NewToolResultText(
                                [msg |-> "Task added", id |-> r.task.id,
                                 title |-> r.task.title]))

\* handleAddTask that ignores the errors of time.Parse: a text that does not
\* parse is the zero time.
handleAddTaskLenient(p, args) ==
    LET title == StringArg(args, "title").v
        desc == StringArg(args, "description").v
        start == ParseRFC3339(StringArg(args, "start_time").v)
        end == ParseRFC3339(StringArg(args, "end_time").v)
        allowOverlap == BoolArg(args, "allow_overlap").v
    IN LET conflict == CheckOverlap(p, start.t, end.t, 0)
       IN IF ~allowOverlap /\ conflict.err # Nil
          THEN Handled(p, NewToolResultError(
                   [msg |-> "Failed to check overlap", err |-> conflict.err]))
          ELSE IF ~allowOverlap /\ conflict.found
          THEN Handled(p, NewToolResultError(ConflictText(conflict.task)))
          ELSE LET r == AddTask(p, title, desc, start.t, end.t)
               IN IF r.err # Nil
                  THEN Handled(p, NewToolResultError(
                           [msg |-> "Failed to add task", err |-> r.err]))
                  ELSE Handled(r.p, NewToolResultText(
                           [msg |-> "Task added", id |-> r.task.id,
                            title |-> r.task.title]))

\* (CallTool always passes a map, so the "Invalid arguments format" return of
\* the handlers is never taken.)
handleAddTask(p, args) ==
    LET title == StringArg(args, "title").v
        desc == StringArg(args, "description").v
        start == ParseRFC3339(StringArg(args, "start_time").v)
        end == ParseRFC3339(StringArg(args, "end_time").v)
        allowOverlap == BoolArg(args, "allow_overlap").v
    IN IF ~start.ok
       THEN Handled(p, NewToolResultError([msg |-> "Invalid start_time format"]))
       ELSE IF ~end.ok
       THEN Handled(p, NewToolResultError([msg |-> "Invalid end_time format"]))
       ELSE LET conflict == CheckOverlap(p, start.t, end.t, 0)
            IN IF ~allowOverlap /\ conflict.err # Nil
               THEN Handled(p, NewToolResultError(
                        [msg |-> "Failed to check overlap", err |-> conflict.err]))
               ELSE IF ~allowOverlap /\ conflict.found
               THEN Handled(p, NewToolResultError(ConflictText(conflict.task)))
               ELSE LET r == AddTask(p, title, desc, start.t, end.t)
                    IN IF r.err # Nil
                       THEN Handled(p, NewToolResultError(
                                [msg |-> "Failed to add task", err |-> r.err]))
                       ELSE Handled(r.p, NewToolResultText(
                                [msg |-> "Task added", id |-> r.task.id,
                                 title |-> r.task.title]))

\* json.MarshalIndent(tasks): a nil slice marshals to null.
MarshalTasks(tasks) ==
    IF Len(tasks) = 0 THEN [null |-> TRUE, items |-> <<>>]
    ELSE [null |-> FALSE, items |-> tasks]

\* handleListTasks that returns the store's error as its own error.
handleListTasksPropagating(p, args) ==
    LET r == ListTasks(p)
    IN IF r.err # Nil
       THEN [p |-> p, result |-> [isError |-> FALSE, text |-> [msg |-> Nil]],
             err |-> r.err]
       ELSE Handled(p, NewToolResultText(MarshalTasks(r.tasks)))

handleListTasks(p, args) ==
    LET r == ListTasks(p)
    IN IF r.err # Nil
       THEN Handled(p, NewToolResultError([msg |-> "Failed to list tasks", err |-> r.err]))
       ELSE Handled(p, NewToolResultText(MarshalTasks(r.tasks)))

handleExportTasks(p, args) ==
    LET given == StringArg(args, "filename").v
        filename == IF given = "" THEN "plan.md" ELSE given
        err == ExportToMarkdown(p, filename)
    IN IF err # Nil
       THEN Handled(p, NewToolResultError([msg |-> "Failed to export tasks", err |-> err]))
       ELSE Handled(p, NewToolResultText([msg |-> "Tasks exported", filename |-> filename]))

\* The merge writing description whether or not it was given: the task's
\* description is lost when the call does not carry one.
MergeUpdateDescriptionLost(task, args) ==
    LET title == StringArg(args, "title")
        desc == StringArg(args, "description")
        status == StringArg(args, "status")
        startStr == StringArg(args, "start_time")
        endStr == StringArg(args, "end_time")
        start == ParseRFC3339(startStr.v)
        end == ParseRFC3339(endStr.v)
    IN [id |-> task.id,
        title |-> IF title.ok /\ title.v # "" THEN title.v ELSE task.title,
        description |-> desc.v,
        start_time |-> IF startStr.ok /\ startStr.v # "" /\ start.ok
                       THEN start.t ELSE task.start_time,
        end_time |-> IF endStr.ok /\ endStr.v # "" /\ end.ok
                     THEN end.t ELSE task.end_time,
        status |-> IF status.ok /\ status.v # "" THEN status.v ELSE task.status,
        reminded |-> task.reminded]

\* The task update_task is about to store: the stored task with the provided
\* fields merged in.
MergeUpdate(task, args) ==
    LET title == StringArg(args, "title")
        desc == StringArg(args, "description")
        status == StringArg(args, "status")
        startStr == StringArg(args, "start_time")
        endStr == StringArg(args, "end_time")
        start == ParseRFC3339(startStr.v)
        end == ParseRFC3339(endStr.v)
    IN [id |-> task.id,
        title |-> IF title.ok /\ title.v # "" THEN title.v ELSE task.title,
        description |-> IF desc.ok THEN desc.v ELSE task.description,
        start_time |-> IF startStr.ok /\ startStr.v # "" /\ start.ok
                       THEN start.t ELSE task.start_time,
        end_time |-> IF endStr.ok /\ endStr.v # "" /\ end.ok
                     THEN end.t ELSE task.end_time,
        status |-> IF status.ok /\ status.v # "" THEN status.v ELSE task.status,
        reminded |-> task.reminded]

\* handleUpdateTask that refuses a start_time or end_time that does not parse,
\* as handleAddTask does.
handleUpdateTaskStrict(p, args) ==
    LET idFloat == Float64Arg(args, "id")
        id == idFloat.v
        got == GetTask(p, id)
        task == MergeUpdate(got.task, args)
        startStr == StringArg(args, "start_time")
        endStr == StringArg(args, "end_time")
        allowOverlap == BoolArg(args, "allow_overlap").v
    IN IF ~idFloat.ok
       THEN Handled(p, NewToolResultError([msg |-> "Task ID is required and must be a number"]))
       ELSE IF got.err # Nil
       THEN Handled(p, NewToolResultError([msg |-> "Failed to find task", err |-> got.err]))
       ELSE IF startStr.ok /\ startStr.v # "" /\ ~ParseRFC3339(startStr.v).ok
       THEN Handled(p, NewToolResultError([msg |-> "Invalid start_time format"]))
       ELSE IF endStr.ok /\ endStr.v # "" /\ ~ParseRFC3339(endStr.v).ok
       THEN Handled(p, NewToolResultError([msg |-> "Invalid end_time format"]))
       ELSE LET conflict == CheckOverlap(p, task.start_time, task.end_time, task.id)
            IN IF ~allowOverlap /\ conflict.err # Nil
               THEN Handled(p, NewToolResultError(
                        [msg |-> "Failed to check overlap", err |-> conflict.err]))
               ELSE IF ~allowOverlap /\ conflict.found
               THEN Handled(p, NewToolResultError(ConflictText(conflict.task)))
               ELSE LET r == UpdateTask(p, task)
                    IN IF r.err # Nil
                       THEN Handled(p, NewToolResultError(
                                [msg |-> "Failed to update task", err |-> r.err]))
                       ELSE Handled(r.p, NewToolResultText(
                                [msg |-> "Task updated successfully", id |-> id]))

\* handleUpdateTask that stores the merged task first and looks for a
\* conflict afterwards.
handleUpdateTaskCommitFirst(p, args) ==
    LET idFloat == Float64Arg(args, "id")
        id == idFloat.v
        got == GetTask(p, id)
        task == MergeUpdate(got.task, args)
        allowOverlap == BoolArg(args, "allow_overlap").v
    IN IF ~idFloat.ok
       THEN Handled(p, NewToolResultError([msg |-> "Task ID is required and must be a number"]))
       ELSE IF got.err # Nil
       THEN Handled(p, NewToolResultError([msg |-> "Failed to find task", err |-> got.err]))
       ELSE LET r == UpdateTask(p, task)
                conflict == CheckOverlap(p, task.start_time, task.end_time, task.id)
            IN IF r.err # Nil
               THEN Handled(p, NewToolResultError(
                        [msg |-> "Failed to update task", err |-> r.err]))
               ELSE IF ~allowOverlap /\ conflict.err # Nil
               THEN Handled(r.p, NewToolResultError(
                        [msg |-> "Failed to check overlap", err |-> conflict.err]))
               ELSE IF ~allowOverlap /\ conflict.found
               THEN Handled(r.p, NewToolResultError(ConflictText(conflict.task)))
               ELSE Handled(r.p, NewToolResultText(
                        [msg |-> "Task updated successfully", id |-> id]))

\* (ids are whole JSON numbers, so int(idFloat) is that number)
\* handleUpdateTask that looks for a conflict only when the call brings a
\* start_time or an end_time.
handleUpdateTaskNewWindowOnly(p, args) ==
    LET idFloat == Float64Arg(args, "id")
        id == idFloat.v
        got == GetTask(p, id)
        task == MergeUpdate(got.task, args)
        allowOverlap == \/ BoolArg(args, "allow_overlap").v
                        \/ {"start_time", "end_time"} \cap DOMAIN args = {}
    IN IF ~idFloat.ok
       THEN Handled(p, NewToolResultError([msg |-> "Task ID is required and must be a number"]))
       ELSE IF got.err # Nil
       THEN Handled(p, NewToolResultError([msg |-> "Failed to find task", err |-> got.err]))
       ELSE LET conflict == CheckOverlap(p, task.start_time, task.end_time, task.id)
            IN IF ~allowOverlap /\ conflict.err # Nil
               THEN Handled(p, NewToolResultError(
                        [msg |-> "Failed to check overlap", err |-> conflict.err]))
               ELSE IF ~allowOverlap /\ conflict.found
               THEN Handled(p, NewToolResultError(ConflictText(conflict.task)))
               ELSE LET r == UpdateTask(p, task)
                    IN IF r.err # Nil
                       THEN Handled(p, NewToolResultError(
                                [msg |-> "Failed to update task", err |-> r.err]))
                       ELSE Handled(r.p, NewToolResultText(
                                [msg |-> "Task updated successfully", id |-> id]))

\* handleUpdateTask without the conflict check.
handleUpdateTaskUnchecked(p, args) ==
    LET idFloat == Float64Arg(args, "id")
        id == idFloat.v
        got == GetTask(p, id)
        task == MergeUpdate(got.task, args)
    IN IF ~idFloat.ok
       THEN Handled(p, NewToolResultError([msg |-> "Task ID is required and must be a number"]))
       ELSE IF got.err # Nil
       THEN Handled(p, NewToolResultError([msg |-> "Failed to find task", err |-> got.err]))
       ELSE LET r == UpdateTask(p, task)
            IN IF r.err # Nil
               THEN Handled(p, NewToolResultError(
                        [msg |-> "Failed to update task", err |-> r.err]))
               ELSE Handled(r.p, NewToolResultText(
                        [msg |-> "Task updated successfully", id |-> id]))

handleUpdateTask(p, args) ==
    LET idFloat == Float64Arg(args, "id")
        id == idFloat.v
        got == GetTask(p, id)
        task == MergeUpdate(got.task, args)
        allowOverlap == BoolArg(args, "allow_overlap").v
    IN IF ~idFloat.ok
       THEN Handled(p, NewToolResultError([msg |-> "Task ID is required and must be a number"]))
       ELSE IF got.err # Nil
       THEN Handled(p, NewToolResultError([msg |-> "Failed to find task", err |-> got.err]))
       ELSE LET conflict == CheckOverlap(p, task.start_time, task.end_time, task.id)
            IN IF ~allowOverlap /\ conflict.err # Nil
               THEN Handled(p, NewToolResultError(
                        [msg |-> "Failed to check overlap", err |-> conflict.err]))
               ELSE IF ~allowOverlap /\ conflict.found
               THEN Handled(p, NewToolResultError(ConflictText(conflict.task)))
               ELSE LET r == UpdateTask(p, task)
                    IN IF r.err # Nil
                       THEN Handled(p, NewToolResultError(
                                [msg |-> "Failed to update task", err |-> r.err]))
                       ELSE Handled(r.p, NewToolResultText(
                                [msg |-> "Task updated successfully", id |-> id]))

handleDeleteTask(p, args) ==
    LET idFloat == Float64Arg(args, "id")
        id == idFloat.v
        r == DeleteTask(p, id)
    IN IF ~idFloat.ok
       THEN Handled(p, NewToolResultError([msg |-> "Task ID is required and must be a number"]))
       ELSE IF r.err # Nil
       THEN Handled(p, NewToolResultError([msg |-> "Failed to delete task", err |-> r.err]))
       ELSE Handled(r.p, NewToolResultText([msg |-> "Task deleted successfully", id |-> id]))

\* A nil *CallToolResult.
NoResult == [isError |-> FALSE, text |-> [msg |-> Nil]]

ErrToolNotFound(name) == "tool not found: " \o name

\* CallTool: the switch on the tool's name.
CallTool(p, name, args) ==
    CASE name = "current_time" -> handleCurrentTime(p, args)
      [] name = "add_task" -> handleAddTask(p, args)
      [] name = "list_tasks" -> handleListTasks(p, args)
      [] name = "export_tasks" -> handleExportTasks(p, args)
      [] name = "update_task" -> handleUpdateTask(p, args)
      [] name = "delete_task" -> handleDeleteTask(p, args)
      [] OTHER -> [p |-> p, result |-> NoResult, err |-> ErrToolNotFound(name)]

\* ------------------------------------------------------- agent.OpenAIAgent

RoleSystem == "system"

RoleUser == "user"

RoleAssistant == "assistant"

RoleTool == "tool"

\* openai.ChatCompletionMessage: Role, Content, ToolCalls, ToolCallID.
Message(role, content) ==
    [role |-> role, content |-> content, tool_calls |-> <<>>, tool_call_id |-> ""]

\* The system prompt NewAgent starts with.
Placeholder == [msg |-> "You are Gomentum, a helpful planning assistant."]

\* The system prompt Chat writes: the same text with now.Format(time.RFC3339) in it.
SystemPrompt(t) ==
    [msg |-> "You are Gomentum, a helpful planning assistant. The current local time is",
     local_time |-> FormatRFC3339(t)]

\* Chat's return values.
Returned(text, err) == [text |-> text, err |-> err]

NotReturned == [text |-> "", err |-> "running"]

\* No request sent, no response received yet in this Chat call.
NoMessages == <<>>

NoResponse == [err |-> "none", choices |-> <<>>]

\* The agent NewAgent builds, no Chat call running.  pc is the position of
\* the Chat call: "idle" (no call), "user" (the system prompt is written, the
\* user message is to be appended), "request" (at CreateChatCompletion),
\* "tools" (in the loop over msg.ToolCalls, at the i-th of calls).  sent and
\* resp are the Messages of the last request and the response to it;
\* requests and dispatched count the model requests and the CallTool calls
\* of the Chat call; ret is what the last Chat call returned.
NewAgent ==
    [history |-> <<Message(RoleSystem, Placeholder)>>,
     pc |-> "idle", prompt |-> "", calls |-> <<>>, i |-> 0,
     ret |-> NotReturned, sent |-> NoMessages, resp |-> NoResponse,
     requests |-> 0, dispatched |-> 0]

ErrRequest == "request failed"

ErrNoChoices == "no response from LLM"

ErrParseArguments == "failed to parse tool arguments"

\* Function.Arguments is JSON text: the serialization of an argument map, or
\* text that is no JSON.
Json(args) == [json |-> TRUE, value |-> args]

BadJson(text) == [json |-> FALSE, value |-> text]

\* json.Unmarshal([]byte(toolCall.Function.Arguments), &args)
Unmarshal(arguments) ==
    IF arguments.json THEN [args |-> arguments.value, ok |-> TRUE]
    ELSE [args |-> NoArgs, ok |-> FALSE]

\* openai.ToolCall: ID, Function.Name, Function.Arguments.
ToolCall(id, name, arguments) == [id |-> id, name |-> name, arguments |-> arguments]

\* The content of a tool message: "Error: %v" of CallTool's error, or the
\* text of each TextContent of the result followed by a newline.
ToolContent(result, err) ==
    IF err # Nil THEN [error |-> err, lines |-> <<>>]
    ELSE [error |-> Nil, lines |-> <<result.text>>]

\* Chat writing the system prompt only while it is NewAgent's placeholder.
ChatSystemPromptOnce(a, prompt, t) ==
    [a EXCEPT
        !.history = IF Len(a.history) > 0 /\ a.history[1].role = RoleSystem
                       /\ a.history[1].content = Placeholder
                    THEN [a.history EXCEPT ![1].content = SystemPrompt(t)]
                    ELSE a.history,
        !.pc = "user", !.prompt = prompt, !.ret = NotReturned,
        !.sent = NoMessages, !.resp = NoResponse, !.calls = <<>>, !.i = 0,
        !.requests = 0, !.dispatched = 0]

\* Chat, lines 67-71: the system prompt is rewritten with the current time.
ChatSystemPrompt(a, prompt, t) ==
    [a EXCEPT
        !.history = IF Len(a.history) > 0 /\ a.history[1].role = RoleSystem
                    THEN [a.history EXCEPT ![1].content = SystemPrompt(t)]
                    ELSE a.history,
        !.pc = "user", !.prompt = prompt, !.ret = NotReturned,
        !.sent = NoMessages, !.resp = NoResponse, !.calls = <<>>, !.i = 0,
        !.requests = 0, !.dispatched = 0]

\* Chat keeping, beside the system message, only the last three messages
\* when it appends the user message.
ChatUserMessageWindowed(a) ==
    LET all == Append(a.history, Message(RoleUser, a.prompt))
        kept == IF Len(all) <= 4 THEN all
                ELSE <<all[1]>> \o SubSeq(all, Len(all) - 2, Len(all))
    IN [a EXCEPT !.history = kept, !.pc = "request"]

\* Chat, lines 73-77: the user message is appended.
ChatUserMessage(a) ==
    [a EXCEPT !.history = Append(a.history, Message(RoleUser, a.prompt)),
              !.pc = "request"]

\* return text, err
ChatReturn(a, text, err) ==
    [a EXCEPT !.pc = "idle", !.ret = Returned(text, err), !.calls = <<>>, !.i = 0]

\* Chat returning the final answer without keeping it in the history.
ChatCompletionForgetful(a, resp) ==
    LET asked == [a EXCEPT !.sent = a.history, !.resp = resp,
                           !.requests = a.requests + 1]
    IN IF resp.err # Nil THEN ChatReturn(asked, "", resp.err)
       ELSE IF Len(resp.choices) = 0 THEN ChatReturn(asked, "", ErrNoChoices)
       ELSE LET msg == resp.choices[1]
                told == [asked EXCEPT !.history = Append(asked.history, msg)]
            IN IF Len(msg.tool_calls) = 0
               THEN ChatReturn(asked, msg.content, Nil)
               ELSE [told EXCEPT !.pc = "tools", !.calls = msg.tool_calls, !.i = 1]

\* Chat giving up after two model requests.
ChatCompletionCapped(a, resp) ==
    LET asked == [a EXCEPT !.sent = a.history, !.resp = resp,
                           !.requests = a.requests + 1]
    IN IF a.requests >= 2 THEN ChatReturn(a, "", "too many tool iterations")
       ELSE IF resp.err # Nil THEN ChatReturn(asked, "", resp.err)
       ELSE IF Len(resp.choices) = 0 THEN ChatReturn(asked, "", ErrNoChoices)
       ELSE LET msg == resp.choices[1]
                told == [asked EXCEPT !.history = Append(asked.history, msg)]
            IN IF Len(msg.tool_calls) = 0
               THEN ChatReturn(told, msg.content, Nil)
               ELSE [told EXCEPT !.pc = "tools", !.calls = msg.tool_calls, !.i = 1]

\* Chat, lines 84-107: one CreateChatCompletion with the whole history, and
\* what Chat does with the response.
ChatCompletion(a, resp) ==
    LET asked == [a EXCEPT !.sent = a.history, !.resp = resp,
                           !.requests = a.requests + 1]
    IN IF resp.err # Nil THEN ChatReturn(asked, "", resp.err)
       ELSE IF Len(resp.choices) = 0 THEN ChatReturn(asked, "", ErrNoChoices)
       ELSE LET msg == resp.choices[1]
                told == [asked EXCEPT !.history = Append(asked.history, msg)]
            IN IF Len(msg.tool_calls) = 0
               THEN ChatReturn(told, msg.content, Nil)
               ELSE [told EXCEPT !.pc = "tools", !.calls = msg.tool_calls, !.i = 1]

\* The loop over msg.ToolCalls taking the calls last to first.
ChatToolCallBackwards(a, p) ==
    LET toolCall == a.calls[Len(a.calls) + 1 - a.i]
        parsed == Unmarshal(toolCall.arguments)
        r == CallTool(p, toolCall.name, parsed.args)
        answered ==
            [a EXCEPT
                !.history = Append(a.history,
                    [role |-> RoleTool, content |-> ToolContent(r.result, r.err),
                     tool_calls |-> <<>>, tool_call_id |-> toolCall.id]),
                !.dispatched = a.dispatched + 1]
    IN IF ~parsed.ok
       THEN [a |-> ChatReturn(a, "", ErrParseArguments), p |-> p]
       ELSE IF a.i < Len(a.calls)
       THEN [a |-> [answered EXCEPT !.i = a.i + 1], p |-> r.p]
       ELSE [a |-> [answered EXCEPT !.pc = "request", !.calls = <<>>, !.i = 0],
             p |-> r.p]

\* Chat, lines 110-137: one iteration of the loop over msg.ToolCalls, on the
\* database p.
\* The tool loop leaving the turn when CallTool returns an error.
ChatToolCallFatal(a, p) ==
    LET toolCall == a.calls[a.i]
        parsed == Unmarshal(toolCall.arguments)
        r == CallTool(p, toolCall.name, parsed.args)
        answered ==
            [a EXCEPT
                !.history = Append(a.history,
                    [role |-> RoleTool, content |-> ToolContent(r.result, r.err),
                     tool_calls |-> <<>>, tool_call_id |-> toolCall.id]),
                !.dispatched = a.dispatched + 1]
    IN IF ~parsed.ok
       THEN [a |-> ChatReturn(a, "", ErrParseArguments), p |-> p]
       ELSE IF r.err # Nil
       THEN [a |-> ChatReturn(a, "", r.err), p |-> p]
       ELSE IF a.i < Len(a.calls)
       THEN [a |-> [answered EXCEPT !.i = a.i + 1], p |-> r.p]
       ELSE [a |-> [answered EXCEPT !.pc = "request", !.calls = <<>>, !.i = 0],
             p |-> r.p]

ChatToolCall(a, p) ==
    LET toolCall == a.calls[a.i]
        parsed == Unmarshal(toolCall.arguments)
        r == CallTool(p, toolCall.name, parsed.args)
        answered ==
            [a EXCEPT
                !.history = Append(a.history,
                    [role |-> RoleTool, content |-> ToolContent(r.result, r.err),
                     tool_calls |-> <<>>, tool_call_id |-> toolCall.id]),
                !.dispatched = a.dispatched + 1]
    IN IF ~parsed.ok
       THEN [a |-> ChatReturn(a, "", ErrParseArguments), p |-> p]
       ELSE IF a.i < Len(a.calls)
       THEN [a |-> [answered EXCEPT !.i = a.i + 1], p |-> r.p]
       ELSE [a |-> [answered EXCEPT !.pc = "request", !.calls = <<>>, !.i = 0],
             p |-> r.p]

\* ---------------------------------------------------- tui.startReminder

\* The reminder goroutine before its first tick.  pc is "wait" (at the
\* ticker) or "batch" (in the loop over tasks, batch the tasks still to
\* come).  polled is what the last GetUpcomingTasks(0) returned and pollErr
\* its error; done lists, for the tasks of that batch handled so far, the
\* id, the error of beeep.Notify and the error of MarkAsReminded; notices
\* counts the Notify calls made for each id (it stops counting at MaxNotices).
NewReminder ==
    [pc |-> "wait", batch |-> <<>>, polled |-> <<>>, pollErr |-> Nil,
     done |-> <<>>, notices |-> [id \in IDs |-> 0]]

ErrNotify == "notification failed"

\* startReminder, lines 403-410: a tick; GetUpcomingTasks(0), and on its
\* error `continue`.
ReminderPoll(s, p) ==
    LET r == GetUpcomingTasks(p, 0)
    IN IF r.err # Nil
       THEN [s EXCEPT !.pc = "wait", !.batch = <<>>, !.polled = <<>>,
                      !.pollErr = r.err, !.done = <<>>]
       ELSE [s EXCEPT !.pc = IF Len(r.tasks) = 0 THEN "wait" ELSE "batch",
                      !.batch = r.tasks, !.polled = r.tasks,
                      !.pollErr = Nil, !.done = <<>>]

\* The loop stopping at the first task whose notification or mark fails.
ReminderTaskStopOnFailure(s, p, notifyErr) ==
    LET t == Head(s.batch)
        r == MarkAsReminded(p, t.id)
        failed == notifyErr # Nil \/ r.err # Nil
        rest == IF failed THEN <<>> ELSE Tail(s.batch)
    IN [s |-> [s EXCEPT
                  !.pc = IF Len(rest) = 0 THEN "wait" ELSE "batch",
                  !.batch = rest,
                  !.done = Append(s.done, [id |-> t.id, notifyErr |-> notifyErr,
                                           markErr |-> r.err]),
                  !.notices = [s.notices EXCEPT
                                  ![t.id] = IF @ < MaxNotices THEN @ + 1 ELSE @]],
        p |-> r.p]

\* The loop marking a task only when its notification went through.
ReminderTaskMarkOnSuccess(s, p, notifyErr) ==
    LET t == Head(s.batch)
        r == IF notifyErr = Nil THEN MarkAsReminded(p, t.id)
             ELSE [p |-> p, err |-> Nil]
    IN [s |-> [s EXCEPT
                  !.pc = IF Len(s.batch) = 1 THEN "wait" ELSE "batch",
                  !.batch = Tail(s.batch),
                  !.done = Append(s.done, [id |-> t.id, notifyErr |-> notifyErr,
                                           markErr |-> r.err]),
                  !.notices = [s.notices EXCEPT
                                  ![t.id] = IF @ < MaxNotices THEN @ + 1 ELSE @]],
        p |-> r.p]

\* startReminder, lines 412-422: one iteration of the loop over tasks;
\* beeep.Notify returns notifyErr, which is logged, and the error of
\* MarkAsReminded is dropped.
ReminderTask(s, p, notifyErr) ==
    LET t == Head(s.batch)
        r == MarkAsReminded(p, t.id)
    IN [s |-> [s EXCEPT
                  !.pc = IF Len(s.batch) = 1 THEN "wait" ELSE "batch",
                  !.batch = Tail(s.batch),
                  !.done = Append(s.done, [id |-> t.id, notifyErr |-> notifyErr,
                                           markErr |-> r.err]),
                  !.notices = [s.notices EXCEPT
                                  ![t.id] = IF @ < MaxNotices THEN @ + 1 ELSE @]],
        p |-> r.p]

\* --------------------------------------------------------------- tui.model

\* The goroutine startChat starts for one input, with the channel m.sub it
\* sends on.  pc: "chat" (inside agent.Chat), "send" (blocked in
\* m.sub <- out), "close" (at close(m.sub)), "done".  after is where it
\* goes once out is received.  waits counts the waitForActivity commands
\* blocked on the channel.  produced lists the tokens the callback was given,
\* failed tells that Chat returned an error, finishes counts the finishMsg
\* the channel gave rise to.
NewStream(input) ==
    [input |-> input, pc |-> "chat", out |-> "", after |-> "",
     closed |-> FALSE, waits |-> 0, produced |-> <<>>, failed |-> FALSE,
     finishes |-> 0]

\* InitialModel: no message, not thinking; m.sub is a channel no goroutine
\* sends on (channel 0).  chans lists the channels made since, msgs the
\* messages the commands have handed to the program, in arrival order.
InitialModel ==
    [messages |-> <<>>, isThinking |-> FALSE, currentResp |-> "", sub |-> 0,
     chans |-> <<>>, msgs |-> <<>>]

\* strings.TrimSpace(input) == ""
Blank(input) == input \in {"", "  "}

TokenMsg(token) == [type |-> "tokenMsg", token |-> token]

FinishMsg == [type |-> "finishMsg"]

\* fmt.Sprintf("\nError: %v", err)
ErrorText(err) == "\nError: " \o err

\* waitForActivity(sub) is issued: one more command blocked on channel sub.
WaitForActivity(t, sub) ==
    IF sub \in 1..Len(t.chans)
    THEN [t EXCEPT !.chans[sub].waits = @ + 1]
    ELSE t

\* Update on the Enter key, without the isThinking guard.
UpdateKeyEnterAnyTime(t, input) ==
    IF Blank(input) THEN t
    ELSE LET sub == Len(t.chans) + 1
             m == [t EXCEPT
                      !.messages = Append(@, [from |-> "You", text |-> input]),
                      !.isThinking = TRUE,
                      !.currentResp = "",
                      !.sub = sub,
                      !.chans = Append(@, NewStream(input))]
         IN WaitForActivity(m, sub)

\* Update on the Enter key, the textarea holding input.
UpdateKeyEnter(t, input) ==
    IF t.isThinking THEN t
    ELSE IF Blank(input) THEN t
    ELSE LET sub == Len(t.chans) + 1
             m == [t EXCEPT
                      !.messages = Append(@, [from |-> "You", text |-> input]),
                      !.isThinking = TRUE,
                      !.currentResp = "",
                      !.sub = sub,
                      !.chans = Append(@, NewStream(input))]
         IN WaitForActivity(m, sub)

\* Update on a tokenMsg, the token replacing the response so far.
UpdateTokenMsgLatestOnly(t, msg) ==
    WaitForActivity([t EXCEPT !.currentResp = msg.token], t.sub)

\* Update on a tokenMsg.
UpdateTokenMsg(t, msg) ==
    WaitForActivity([t EXCEPT !.currentResp = @ \o msg.token], t.sub)

\* Update on finishMsg.
UpdateFinishMsg(t) ==
    [t EXCEPT !.isThinking = FALSE,
              !.messages = Append(@, [from |-> "Gomentum", text |-> t.currentResp]),
              !.currentResp = ""]

\* agent.Chat calls the callback with a token: the goroutine blocks in
\* m.sub <- token.
StreamToken(t, c, token) ==
    [t EXCEPT !.chans[c].pc = "send", !.chans[c].out = token,
              !.chans[c].after = "chat",
              !.chans[c].produced = Append(@, token)]

\* agent.Chat returns err: on an error the goroutine sends its text, then
\* it closes the channel.
StreamReturned(t, c, err) ==
    IF err # Nil
    THEN [t EXCEPT !.chans[c].pc = "send", !.chans[c].out = ErrorText(err),
                   !.chans[c].after = "close", !.chans[c].failed = TRUE]
    ELSE [t EXCEPT !.chans[c].pc = "close"]

\* A waitForActivity command blocked on channel c receives what the
\* goroutine sends and returns it as a tokenMsg.
ReceiveToken(t, c) ==
    [t EXCEPT !.chans[c].pc = t.chans[c].after, !.chans[c].out = "",
              !.chans[c].after = "", !.chans[c].waits = @ - 1,
              !.msgs = Append(@, TokenMsg(t.chans[c].out))]

\* close(m.sub)
CloseSub(t, c) == [t EXCEPT !.chans[c].pc = "done", !.chans[c].closed = TRUE]

\* A waitForActivity command blocked on the closed channel c returns finishMsg.
ReceiveClosed(t, c) ==
    [t EXCEPT !.chans[c].waits = @ - 1, !.chans[c].finishes = @ + 1,
              !.msgs = Append(@, FinishMsg)]

\* ------------------------------------------------------------ the callers
\* What a caller may pass.  Titles and descriptions are Go strings.

Titles == {"standup", "review"}

Descriptions == {"", "weekly"}

\* Every window over the clock, start after end included.
Windows == Times \X Times

\* The windows that do not end before they start.
ForwardWindows == {w \in Windows : w[1] <= w[2]}

\* The windows one clock tick long.
UnitWindows == {<<t, t + 1>> : t \in Times}

\* GetUpcomingTasks(d): look-ahead durations 0..MaxAhead (the scheduler passes 0).
MaxAhead == 1

Durations == 0..MaxAhead

\* The Task values a caller of UpdateTask may build.
TaskValues(titles, descriptions, windows, statuses) ==
    {[id |-> id, title |-> title, description |-> description,
      start_time |-> w[1], end_time |-> w[2], status |-> status, reminded |-> FALSE] :
        id \in IDs, title \in titles, description \in descriptions,
        w \in windows, status \in statuses}

NoCall == [op |-> "none", args |-> <<>>, ret |-> <<>>]

Init ==
    /\ db = NewPlanner
    /\ dbOK = TRUE
    /\ now = 0
    /\ last = NoCall
    /\ prev = NewPlanner
    /\ agent = NewAgent
    /\ sched = NewReminder
    /\ tui = InitialModel

\* time passes
Tick ==
    /\ last = NoCall
    /\ now < MaxTime
    /\ now' = now + 1
    /\ UNCHANGED <<tui, agent, sched, db, dbOK, last, prev>>

\* The database stops answering, or answers again (the file is locked or
\* released, the disk fills or is freed), between two calls.
Fault ==
    /\ last = NoCall
    /\ dbOK' = ~dbOK
    /\ UNCHANGED <<tui, agent, sched, db, now, last, prev>>

\* The caller takes the result of the call and goes on: calls are made one
\* after the other.
Return ==
    /\ last # NoCall
    /\ last' = NoCall
    /\ prev' = db
    /\ UNCHANGED <<tui, agent, sched, db, dbOK, now>>

\* ---- direct calls of the Planner's methods

CallAddTask(title, description, start, end) ==
    /\ last = NoCall
    /\ db.seq < MaxID
    /\ \E r \in {AddTask(db, title, description, start, end)} :
          /\ db' = r.p
          /\ last' = [op |-> "AddTask",
                      args |-> [title |-> title, description |-> description,
                                start |-> start, end |-> end],
                      ret |-> [task |-> r.task, err |-> r.err]]
    /\ prev' = db
    /\ UNCHANGED <<tui, agent, sched, dbOK, now>>

CallListTasks ==
    /\ last = NoCall
    /\ \E r \in {ListTasks(db)} :
          last' = [op |-> "ListTasks", args |-> <<>>, ret |-> r]
    /\ prev' = db
    /\ UNCHANGED <<tui, agent, sched, db, dbOK, now>>

CallGetUpcomingTasks(d) ==
    /\ last = NoCall
    /\ \E r \in {GetUpcomingTasks(db, d)} :
          last' = [op |-> "GetUpcomingTasks", args |-> [d |-> d], ret |-> r]
    /\ prev' = db
    /\ UNCHANGED <<tui, agent, sched, db, dbOK, now>>

CallMarkAsReminded(id) ==
    /\ last = NoCall
    /\ \E r \in {MarkAsReminded(db, id)} :
          /\ db' = r.p
          /\ last' = [op |-> "MarkAsReminded", args |-> [id |-> id],
                      ret |-> [err |-> r.err]]
    /\ prev' = db
    /\ UNCHANGED <<tui, agent, sched, dbOK, now>>

CallCheckOverlap(start, end, excludeID) ==
    /\ last = NoCall
    /\ \E r \in {CheckOverlap(db, start, end, excludeID)} :
          last' = [op |-> "CheckOverlap",
                   args |-> [start |-> start, end |-> end, excludeID |-> excludeID],
                   ret |-> r]
    /\ prev' = db
    /\ UNCHANGED <<tui, agent, sched, db, dbOK, now>>

CallGetTask(id) ==
    /\ last = NoCall
    /\ \E r \in {GetTask(db, id)} :
          last' = [op |-> "GetTask", args |-> [id |-> id], ret |-> r]
    /\ prev' = db
    /\ UNCHANGED <<tui, agent, sched, db, dbOK, now>>

CallUpdateTask(t) ==
    /\ last = NoCall
    /\ \E r \in {UpdateTask(db, t)} :
          /\ db' = r.p
          /\ last' = [op |-> "UpdateTask", args |-> t, ret |-> [err |-> r.err]]
    /\ prev' = db
    /\ UNCHANGED <<tui, agent, sched, dbOK, now>>

CallDeleteTask(id) ==
    /\ last = NoCall
    /\ \E r \in {DeleteTask(db, id)} :
          /\ db' = r.p
          /\ last' = [op |-> "DeleteTask", args |-> [id |-> id],
                      ret |-> [err |-> r.err]]
    /\ prev' = db
    /\ UNCHANGED <<tui, agent, sched, dbOK, now>>

\* The Task Store under any sequence of creations, updates and deletions, the
\* windows varying, probed by CheckOverlap with any window.
NextOverlap ==
    \/ Return
    \/ \E w \in ForwardWindows : CallAddTask("standup", "", w[1], w[2])
    \/ \E w \in Windows, excludeID \in {0} \cup IDs :
           CallCheckOverlap(w[1], w[2], excludeID)
    \/ \E t \in TaskValues({"standup"}, {""}, ForwardWindows, {StatusPending}) :
           CallUpdateTask(t)
    \/ \E id \in IDs : CallDeleteTask(id)

SpecOverlap == Init /\ [][NextOverlap]_vars

\* The Task Store listed, under creations, moves, reminders and deletions:
\* the start times, the order of creation and the reminded flag varying.
NextList ==
    \/ Return
    \/ \E w \in UnitWindows : CallAddTask("standup", "", w[1], w[2])
    \/ CallListTasks
    \/ \E id \in IDs : CallMarkAsReminded(id)
    \/ \E t \in TaskValues({"standup"}, {""}, UnitWindows, {StatusPending}) :
           CallUpdateTask(t)
    \/ \E id \in IDs : CallDeleteTask(id)

SpecList == Init /\ [][NextList]_vars

\* The Task Store as the reminder scheduler and the tools use it: the clock,
\* the start time, the status and the reminded flag varying.  A task's status
\* is changed as update_task does it: the stored task with one field replaced.
NextReminder ==
    \/ Return
    \/ Tick
    \/ \E w \in UnitWindows : CallAddTask("standup", "", w[1], w[2])
    \/ \E d \in Durations : CallGetUpcomingTasks(d)
    \/ \E id \in IDs : CallMarkAsReminded(id)
    \/ \E id \in DOMAIN db.rows, status \in Statuses :
           CallUpdateTask([Scan(db, id) EXCEPT !.status = status])
    \/ \E id \in IDs : CallDeleteTask(id)

SpecReminder == Init /\ [][NextReminder]_vars

\* The Task Store under creation, lookup and deletion, every field of the
\* created task varying.
NextRoundTrip ==
    \/ Return
    \/ \E title \in Titles, description \in Descriptions, w \in UnitWindows :
           CallAddTask(title, description, w[1], w[2])
    \/ \E id \in IDs : CallGetTask(id)
    \/ \E id \in IDs : CallDeleteTask(id)

SpecRoundTrip == Init /\ [][NextRoundTrip]_vars

\* ---- calls of the Tool Gateway

\* start_time / end_time arguments: the RFC3339 text of an instant of the
\* clock, or text that is no timestamp.
ValidTimeArgs == {Str(FormatRFC3339(t)) : t \in Times}

Invoke(name, args) ==
    /\ last = NoCall
    /\ \E r \in {CallTool(db, name, args)} :
          /\ r.p.seq <= MaxID
          /\ db' = r.p
          /\ last' = [op |-> "CallTool",
                      args |-> [name |-> name, arguments |-> args],
                      ret |-> [result |-> r.result, err |-> r.err]]
    /\ prev' = db
    /\ UNCHANGED <<tui, agent, sched, dbOK, now>>

InvokeAddTask(args) == Invoke("add_task", args)

InvokeUpdateTask(args) == Invoke("update_task", args)

InvokeDeleteTask(args) == Invoke("delete_task", args)

InvokeListTasks == Invoke("list_tasks", NoArgs)

\* The arguments of the calls: add_task with a title, a window that does not
\* end before it starts or a time text that is no timestamp, and allow_overlap
\* left out or true; update_task of an id with a new start_time, a new
\* end_time, both (a window that does not end before it starts) or neither;
\* delete_task of an id.
AddTaskTimes ==
    {<<Str(FormatRFC3339(w[1])), Str(FormatRFC3339(w[2]))>> : w \in ForwardWindows}
        \cup {<<Str("tomorrow 9am"), Str(FormatRFC3339(1))>>,
              <<Str(FormatRFC3339(0)), Str("tomorrow 9am")>>}

AddTaskArgs ==
    {MakeArgs(<< <<"title", Str("standup")>>, <<"start_time", w[1]>>,
                 <<"end_time", w[2]>>, <<"allow_overlap", allow>> >>) :
        w \in AddTaskTimes, allow \in {Absent, Bool(TRUE)}}

MoveTaskTimes ==
    {<<Str(FormatRFC3339(w[1])), Str(FormatRFC3339(w[2]))>> : w \in ForwardWindows}
        \cup {<<start, Absent>> : start \in ValidTimeArgs}
        \cup {<<Absent, end>> : end \in ValidTimeArgs}
        \cup {<<Absent, Absent>>}

MoveTaskArgs ==
    {MakeArgs(<< <<"id", Num(id)>>, <<"start_time", w[1]>>, <<"end_time", w[2]>> >>) :
        id \in IDs, w \in MoveTaskTimes}

IdArgs == {MakeArgs(<< <<"id", Num(id)>> >>) : id \in IDs}

\* The caller of update_task leaves the task a window that does not end
\* before it starts.
ForwardMove(args) ==
    args["id"].v \in DOMAIN db.rows =>
        LET task == MergeUpdate(Scan(db, args["id"].v), args)
        IN task.start_time <= task.end_time

\* The Tool Gateway under any sequence of add_task, update_task, delete_task
\* and list_tasks calls, the windows and allow_overlap varying.
NextGateway ==
    \/ Return
    \/ \E args \in AddTaskArgs : InvokeAddTask(args)
    \/ \E args \in MoveTaskArgs : InvokeUpdateTask(args) /\ ForwardMove(args)
    \/ \E args \in IdArgs : InvokeDeleteTask(args)
    \/ InvokeListTasks

SpecGateway == Init /\ [][NextGateway]_vars

\* update_task of an id with a new status.
CompleteTaskArgs ==
    {MakeArgs(<< <<"id", Num(id)>>, <<"status", Str(StatusCompleted)>> >>) : id \in IDs}

\* The Task Store under creations, deletions and every operation that
\* rewrites a stored task: UpdateTask, MarkAsReminded and the update_task tool.
NextIdentity ==
    \/ Return
    \/ \E w \in UnitWindows : CallAddTask("standup", "", w[1], w[2])
    \/ \E t \in TaskValues({"standup"}, {""}, UnitWindows, {StatusPending}) :
           CallUpdateTask(t)
    \/ \E id \in IDs : CallMarkAsReminded(id)
    \/ \E id \in IDs : CallDeleteTask(id)
    \/ \E args \in CompleteTaskArgs : InvokeUpdateTask(args)

SpecIdentity == Init /\ [][NextIdentity]_vars

\* add_task of a window one tick long, with the title given.
UnitTaskArgs(titles) ==
    {MakeArgs(<< <<"title", title>>, <<"start_time", Str(FormatRFC3339(w[1]))>>,
                 <<"end_time", Str(FormatRFC3339(w[2]))>> >>) :
        title \in titles, w \in UnitWindows}

\* update_task of an id with one more argument, key |-> value.
PatchArgs(key, values) ==
    {MakeArgs(<< <<"id", Num(id)>>, <<key, value>> >>) : id \in IDs, value \in values}

\* What a caller may pass as status: nothing, the empty string, a status of
\* the tool's description, another word, a number.
StatusArgs ==
    {Absent, Str(""), Str(StatusInProgress), Str(StatusCompleted), Str("done"), Num(1)}

\* The Tool Gateway under add_task, update_task and delete_task calls, the
\* status argument varying.
NextStatus ==
    \/ Return
    \/ \E args \in UnitTaskArgs({Str("standup")}) : InvokeAddTask(args)
    \/ \E args \in PatchArgs("status", StatusArgs) : InvokeUpdateTask(args)
    \/ \E args \in IdArgs : InvokeDeleteTask(args)

SpecStatus == Init /\ [][NextStatus]_vars

\* What a caller may pass as title: nothing, the empty string, a title, a
\* number.
TitleArgs == {Absent, Str(""), Str("standup"), Str("review"), Num(7)}

\* The Tool Gateway under add_task and update_task calls, the title argument
\* varying.
NextTitle ==
    \/ Return
    \/ \E args \in UnitTaskArgs(TitleArgs) : InvokeAddTask(args)
    \/ \E args \in PatchArgs("title", TitleArgs) : InvokeUpdateTask(args)

SpecTitle == Init /\ [][NextTitle]_vars

\* The windows at most one tick long, forwards or backwards.
NearWindows == {w \in Windows : w[1] - w[2] \in {0 - 1, 0, 1}}

\* What a caller may pass as a time and time.Parse refuses: nothing, the empty
\* string, a text that is no RFC3339 timestamp, a number.
MalformedTimeArgs == {Absent, Str(""), Str("tomorrow 9am"), Num(9)}

\* The start_time and end_time of an add_task call: a window of NearWindows,
\* or at least one malformed time.
WindowArgs ==
    {<<Str(FormatRFC3339(w[1])), Str(FormatRFC3339(w[2]))>> : w \in NearWindows}
        \cup {<<bad, Str(FormatRFC3339(1))>> : bad \in MalformedTimeArgs}
        \cup {<<Str(FormatRFC3339(0)), bad>> : bad \in MalformedTimeArgs}
        \cup {<<Str("tomorrow 9am"), Str("")>>}

CreateArgs ==
    {MakeArgs(<< <<"title", Str("standup")>>, <<"start_time", w[1]>>,
                 <<"end_time", w[2]>>, <<"allow_overlap", allow>> >>) :
        w \in WindowArgs, allow \in {Absent, Bool(TRUE), Bool(FALSE)}}

\* Creation through the Task Store and through add_task, the window running
\* forwards or backwards and the time texts well or ill formed.
NextCreate ==
    \/ Return
    \/ \E w \in NearWindows : w[1] > w[2] /\ CallAddTask("standup", "", w[1], w[2])
    \/ \E args \in CreateArgs : InvokeAddTask(args)
    \/ \E args \in IdArgs : InvokeDeleteTask(args)

SpecCreate == Init /\ [][NextCreate]_vars

\* The names of the tools GetTools lists.
Catalog ==
    {"current_time", "add_task", "list_tasks", "export_tasks", "update_task",
     "delete_task"}

\* Argument maps of every shape: none, the keys of a tool well typed, ill
\* typed or malformed, keys no tool reads.
AnyArgs ==
    {NoArgs,
     MakeArgs(<< <<"verbose", Bool(TRUE)>> >>),
     MakeArgs(<< <<"title", Str("standup")>>, <<"start_time", Str(FormatRFC3339(0))>>,
                 <<"end_time", Str(FormatRFC3339(1))>> >>),
     MakeArgs(<< <<"title", Str("standup")>>, <<"start_time", Str(FormatRFC3339(0))>>,
                 <<"end_time", Str(FormatRFC3339(1))>>, <<"allow_overlap", Bool(TRUE)>> >>),
     MakeArgs(<< <<"title", Num(7)>>, <<"start_time", Num(9)>>,
                 <<"end_time", Bool(FALSE)>>, <<"allow_overlap", Str("yes")>> >>),
     MakeArgs(<< <<"title", Str("standup")>>, <<"start_time", Str("tomorrow 9am")>>,
                 <<"end_time", Str(FormatRFC3339(1))>> >>),
     MakeArgs(<< <<"filename", Str("week.md")>> >>),
     MakeArgs(<< <<"filename", Str("/no/such/dir/plan.md")>> >>),
     MakeArgs(<< <<"filename", Num(3)>> >>),
     MakeArgs(<< <<"id", Str("1")>> >>),
     MakeArgs(<< <<"id", Num(1)>> >>),
     MakeArgs(<< <<"id", Num(1)>>, <<"status", Str(StatusCompleted)>>,
                 <<"start_time", Str("tomorrow 9am")>> >>),
     MakeArgs(<< <<"id", Num(1)>>, <<"start_time", Str(FormatRFC3339(1))>>,
                 <<"end_time", Str(FormatRFC3339(2))>>, <<"allow_overlap", Bool(TRUE)>> >>),
     MakeArgs(<< <<"id", Num(MaxID)>>, <<"title", Num(7)>> >>)}

\* The Tool Gateway called with any name and any arguments, the database
\* answering or not.
NextFaults ==
    \/ Return
    \/ Fault
    \/ \E name \in Catalog \cup {"undo_task"}, args \in AnyArgs : Invoke(name, args)

SpecFaults == Init /\ [][NextFaults]_vars

\* What update_task may carry beside the id: one field, well formed or not,
\* or several of them.
Patches ==
    {<< <<"title", Str("review")>> >>,
     << <<"title", Str("")>> >>,
     << <<"title", Num(7)>> >>,
     << <<"description", Str("weekly")>> >>,
     << <<"description", Str("")>> >>,
     << <<"status", Str(StatusCompleted)>> >>,
     << <<"status", Str("")>> >>,
     << <<"start_time", Str(FormatRFC3339(1))>> >>,
     << <<"end_time", Str(FormatRFC3339(2))>> >>,
     << <<"start_time", Str("tomorrow 9am")>> >>,
     << <<"end_time", Str("tomorrow 9am")>> >>,
     << <<"start_time", Num(9)>>, <<"end_time", Str(FormatRFC3339(1))>> >>,
     << <<"start_time", Str(FormatRFC3339(0))>>, <<"end_time", Str("10 o'clock")>>,
        <<"title", Str("standup")>> >>,
     << <<"start_time", Str("tomorrow 9am")>>, <<"status", Str(StatusPending)>>,
        <<"description", Str("weekly")>>, <<"allow_overlap", Bool(TRUE)>> >>,
     << <<"title", Str("review")>>, <<"description", Str("weekly")>>,
        <<"status", Str(StatusCompleted)>>, <<"start_time", Str(FormatRFC3339(1))>>,
        <<"end_time", Str(FormatRFC3339(2))>>, <<"allow_overlap", Bool(TRUE)>> >>}

PatchTaskArgs ==
    {MakeArgs(<< <<"id", Num(id)>> >> \o patch) : id \in IDs, patch \in Patches}

\* add_task of the first window of the clock, overlap allowed.
FirstWindowArgs ==
    {MakeArgs(<< <<"title", Str("standup")>>, <<"start_time", Str(FormatRFC3339(0))>>,
                 <<"end_time", Str(FormatRFC3339(1))>>, <<"allow_overlap", Bool(TRUE)>> >>)}

\* The Tool Gateway under add_task and update_task calls, the fields an
\* update carries varying.
NextMerge ==
    \/ Return
    \/ \E args \in FirstWindowArgs : InvokeAddTask(args)
    \/ \E args \in PatchTaskArgs : InvokeUpdateTask(args)

SpecMerge == Init /\ [][NextMerge]_vars

\* update_task of an id with a new end_time, the first instant of the clock
\* as its new start_time, or neither; allow_overlap left out, false or true.
RescheduleArgs ==
    {MakeArgs(<< <<"id", Num(id)>>, <<"start_time", w[1]>>, <<"end_time", w[2]>>,
                 <<"allow_overlap", allow>> >>) :
        id \in IDs,
        w \in {<<Absent, end>> : end \in ValidTimeArgs}
                 \cup {<<Str(FormatRFC3339(0)), Absent>>, <<Absent, Absent>>},
        allow \in {Absent, Bool(FALSE), Bool(TRUE)}}

\* The Tool Gateway's update_task on tasks the scheduler has reminded or not:
\* tasks are added on the first two ticks of the clock, marked, and moved.
NextReschedule ==
    \/ Return
    \/ \E start \in {0, 1} : CallAddTask("standup", "", start, start + 1)
    \/ \E id \in IDs : CallMarkAsReminded(id)
    \/ \E args \in RescheduleArgs : InvokeUpdateTask(args) /\ ForwardMove(args)

SpecReschedule == Init /\ [][NextReschedule]_vars

\* ---- the agent's Chat call, step by step

\* The REPL calls Chat(ctx, prompt): the system prompt is rewritten.
ChatEnter(prompt) ==
    /\ agent.pc = "idle"
    /\ Len(agent.history) < MaxHistory
    /\ agent' = ChatSystemPrompt(agent, prompt, now)
    /\ UNCHANGED <<tui, db, dbOK, now, last, prev, sched>>

ChatAppend ==
    /\ agent.pc = "user"
    /\ agent' = ChatUserMessage(agent)
    /\ UNCHANGED <<tui, db, dbOK, now, last, prev, sched>>

\* The model is asked and answers resp.
ChatRequest(resp) ==
    /\ agent.pc = "request"
    /\ Len(agent.history) + Len(resp.choices) <= MaxHistory
    /\ \A k \in 1..Len(resp.choices) :
           Len(agent.history) + 1 + Len(resp.choices[k].tool_calls) <= MaxHistory
    /\ agent' = ChatCompletion(agent, resp)
    /\ UNCHANGED <<tui, db, dbOK, now, last, prev, sched>>

\* The next requested tool is called and its result appended.
ChatDispatch ==
    /\ agent.pc = "tools"
    /\ \E r \in {ChatToolCall(agent, db)} :
          /\ r.p.seq <= MaxID
          /\ agent' = r.a
          /\ db' = r.p
    /\ prev' = db
    /\ UNCHANGED <<tui, dbOK, now, last, sched>>

\* What the model may answer.
Assistant(content, calls) ==
    [role |-> RoleAssistant, content |-> content, tool_calls |-> calls,
     tool_call_id |-> ""]

Response(msg) == [err |-> Nil, choices |-> <<msg>>]

FailedRequest == [err |-> ErrRequest, choices |-> <<>>]

EmptyResponse == [err |-> Nil, choices |-> <<>>]

StandupArgs ==
    MakeArgs(<< <<"title", Str("standup")>>, <<"start_time", Str(FormatRFC3339(0))>>,
                <<"end_time", Str(FormatRFC3339(1))>> >>)

\* add_task then list_tasks in one response.
AddThenList ==
    Assistant("", <<ToolCall("call_1", "add_task", Json(StandupArgs)),
                    ToolCall("call_2", "list_tasks", Json(NoArgs))>>)

\* The same, the arguments of add_task cut short.
TruncatedAddThenList ==
    Assistant("", <<ToolCall("call_1", "add_task", BadJson("{\"title\": \"stand")),
                    ToolCall("call_2", "list_tasks", Json(NoArgs))>>)

\* A tool the gateway does not have.
UnknownTool ==
    Assistant("", <<ToolCall("call_1", "undo_task", Json(NoArgs)),
                    ToolCall("call_2", "list_tasks", Json(NoArgs))>>)

\* list_tasks alone.
ListOnly == Assistant("", <<ToolCall("call_1", "list_tasks", Json(NoArgs))>>)

FinalAnswer == Assistant("Done.", <<>>)

Responses ==
    {FailedRequest, EmptyResponse, Response(FinalAnswer), Response(AddThenList),
     Response(TruncatedAddThenList), Response(UnknownTool), Response(ListOnly)}

Prompts == {"plan my day"}

\* The agent under any sequence of Chat calls, the model answering anything
\* of Responses, the clock running.
NextAgent ==
    \/ Tick
    \/ \E prompt \in Prompts : ChatEnter(prompt)
    \/ ChatAppend
    \/ \E resp \in Responses : ChatRequest(resp)
    \/ ChatDispatch

SpecAgent == Init /\ [][NextAgent]_vars

\* ---- the reminder goroutine, step by step

\* The ticker fires and the due tasks are read.
ReminderTick ==
    /\ sched.pc = "wait"
    /\ sched' = ReminderPoll(sched, db)
    /\ UNCHANGED <<tui, db, dbOK, now, last, prev, agent>>

\* The next task of the batch is notified and marked.
ReminderNotify(notifyErr) ==
    /\ sched.pc = "batch"
    /\ \E r \in {ReminderTask(sched, db, notifyErr)} :
          /\ sched' = r.s
          /\ db' = r.p
    /\ UNCHANGED <<tui, dbOK, now, last, prev, agent>>

\* Tasks start on the first two ticks of the clock.
EarlyWindows == {<<0, 1>>, <<1, 2>>}

\* The reminder goroutine beside a caller that adds tasks, the clock
\* running, notifications and the database failing now and then.
NextScheduler ==
    \/ Return
    \/ Tick
    \/ Fault
    \/ \E w \in EarlyWindows : CallAddTask("standup", "", w[1], w[2])
    \/ ReminderTick
    \/ \E notifyErr \in {Nil, ErrNotify} : ReminderNotify(notifyErr)

SpecScheduler == Init /\ [][NextScheduler]_vars

\* The reminder goroutine while the database answers and no task is
\* updated: tasks are added and deleted, the clock runs, notifications may
\* fail.
NextOneShot ==
    \/ Return
    \/ Tick
    \/ \E w \in EarlyWindows : CallAddTask("standup", "", w[1], w[2])
    \/ \E id \in IDs : CallDeleteTask(id)
    \/ ReminderTick
    \/ \E notifyErr \in {Nil, ErrNotify} : ReminderNotify(notifyErr)

SpecOneShot == Init /\ [][NextOneShot]_vars

\* ---- the reminder goroutine beside the agent's tool calls

\* add_task of a task that starts on one of the first two ticks of the clock.
DueTaskArgs ==
    {MakeArgs(<< <<"title", Str("standup")>>, <<"start_time", Str(FormatRFC3339(w[1]))>>,
                 <<"end_time", Str(FormatRFC3339(w[2]))>> >>) : w \in EarlyWindows}

\* The hours tasks are moved to.
LaterStarts == {2}

\* update_task of an id that moves the task to a later hour, or marks it
\* completed.
PostponeArgs ==
    {MakeArgs(<< <<"id", Num(id)>>, <<"start_time", Str(FormatRFC3339(start))>>,
                 <<"end_time", Str(FormatRFC3339(start + 1))>> >>) :
        id \in IDs, start \in LaterStarts}
        \cup PatchArgs("status", {Str(StatusCompleted)})

\* The reminder goroutine polls and notifies while the Agent Loop calls
\* add_task, update_task and delete_task on the same Planner; the clock
\* runs, the database answers and notifications succeed.
NextInterleaved ==
    \/ Return
    \/ Tick
    \/ \E args \in DueTaskArgs : InvokeAddTask(args)
    \/ \E args \in PostponeArgs : InvokeUpdateTask(args)
    \/ \E args \in IdArgs : InvokeDeleteTask(args)
    \/ ReminderTick
    \/ ReminderNotify(Nil)

SpecInterleaved == Init /\ [][NextInterleaved]_vars

\* The same, the ticker firing again and again and each batch worked off.
SpecInterleavedFair ==
    SpecInterleaved /\ WF_vars(ReminderTick) /\ WF_vars(ReminderNotify(Nil))

\* ---- the Tool Gateway without allow_overlap, any window

\* The windows over the first three instants of the clock, backwards and
\* empty ones included.
ShortWindows == (0..2) \X (0..2)

\* add_task of such a window, allow_overlap left out or false.
AnyWindowArgs ==
    {MakeArgs(<< <<"title", Str("standup")>>, <<"start_time", Str(FormatRFC3339(w[1]))>>,
                 <<"end_time", Str(FormatRFC3339(w[2]))>>, <<"allow_overlap", allow>> >>) :
        w \in ShortWindows, allow \in {Absent, Bool(FALSE)}}

\* update_task of an id with a new start_time, a new end_time, both or
\* neither, whatever window results, without allow_overlap.
AnyMoveArgs ==
    {MakeArgs(<< <<"id", Num(id)>>, <<"start_time", w[1]>>, <<"end_time", w[2]>> >>) :
        id \in IDs,
        w \in ({Absent} \cup {Str(FormatRFC3339(t)) : t \in 0..2})
                 \X ({Absent} \cup {Str(FormatRFC3339(t)) : t \in 0..2})}

\* add_task, update_task and delete_task in any order, never with
\* allow_overlap = true, the reminder goroutine marking tasks meanwhile
\* (MarkAsReminded is its only write to the store).
NextExclusive ==
    \/ Return
    \/ \E args \in AnyWindowArgs : InvokeAddTask(args)
    \/ \E args \in AnyMoveArgs : InvokeUpdateTask(args)
    \/ \E args \in IdArgs : InvokeDeleteTask(args)
    \/ \E id \in IDs : CallMarkAsReminded(id)

SpecExclusive == Init /\ [][NextExclusive]_vars

\* ---- update_task that brings no window

\* add_task of a window that may intersect another, allow_overlap left out
\* or true.
CrowdedArgs ==
    {MakeArgs(<< <<"title", Str("standup")>>, <<"start_time", Str(FormatRFC3339(w[1]))>>,
                 <<"end_time", Str(FormatRFC3339(w[2]))>>, <<"allow_overlap", allow>> >>) :
        w \in {<<0, 2>>, <<1, 3>>, <<2, 3>>}, allow \in {Absent, Bool(TRUE)}}

\* update_task of an id with a status, a title or a description and
\* nothing else.
FieldOnlyArgs ==
    PatchArgs("status", {Str(StatusCompleted), Str(StatusInProgress)})
        \cup PatchArgs("title", {Str("retro")})
        \cup PatchArgs("description", {Str("weekly")})

\* Tasks are added, with overlapping windows when allow_overlap is true,
\* then updated without a new window, and deleted.
NextFieldOnly ==
    \/ Return
    \/ \E args \in CrowdedArgs : InvokeAddTask(args)
    \/ \E args \in FieldOnlyArgs : InvokeUpdateTask(args)
    \/ \E args \in IdArgs : InvokeDeleteTask(args)

SpecFieldOnly == Init /\ [][NextFieldOnly]_vars

\* ---- the TUI: the Update loop, the chat goroutines, the commands

Inputs == {"plan my day", "  "}

Tokens == {"Hel", "lo"}

\* The user presses Enter.
PressEnter(input) ==
    /\ Len(tui.chans) < MaxTurns
    /\ tui' = UpdateKeyEnter(tui, input)
    /\ UNCHANGED <<db, dbOK, now, last, prev, agent, sched>>

\* The program hands the next message to Update.
UpdateMsg ==
    /\ Len(tui.msgs) > 0
    /\ LET msg == Head(tui.msgs)
           t == [tui EXCEPT !.msgs = Tail(@)]
       IN tui' = IF msg.type = "tokenMsg" THEN UpdateTokenMsg(t, msg)
                 ELSE UpdateFinishMsg(t)
    /\ UNCHANGED <<db, dbOK, now, last, prev, agent, sched>>

\* Chat gives the callback a token.
ChatStreams(c, token) ==
    /\ tui.chans[c].pc = "chat"
    /\ Len(tui.chans[c].produced) < MaxTokens
    /\ tui' = StreamToken(tui, c, token)
    /\ UNCHANGED <<db, dbOK, now, last, prev, agent, sched>>

\* Chat returns.
ChatReturns(c, err) ==
    /\ tui.chans[c].pc = "chat"
    /\ tui' = StreamReturned(tui, c, err)
    /\ UNCHANGED <<db, dbOK, now, last, prev, agent, sched>>

\* The send on the unbuffered channel meets a receive.
Rendezvous(c) ==
    /\ tui.chans[c].pc = "send"
    /\ tui.chans[c].waits > 0
    /\ tui' = ReceiveToken(tui, c)
    /\ UNCHANGED <<db, dbOK, now, last, prev, agent, sched>>

CloseChannel(c) ==
    /\ tui.chans[c].pc = "close"
    /\ tui' = CloseSub(tui, c)
    /\ UNCHANGED <<db, dbOK, now, last, prev, agent, sched>>

\* A receive on the closed channel returns.
ReceiveOnClosed(c) ==
    /\ tui.chans[c].closed
    /\ tui.chans[c].waits > 0
    /\ tui' = ReceiveClosed(tui, c)
    /\ UNCHANGED <<db, dbOK, now, last, prev, agent, sched>>

\* What runs without the user: Update, the goroutines and the commands.
TuiRuns ==
    \/ UpdateMsg
    \/ \E c \in 1..Len(tui.chans) :
           \/ \E token \in Tokens : ChatStreams(c, token)
           \/ \E err \in {Nil, ErrRequest} : ChatReturns(c, err)
           \/ Rendezvous(c)
           \/ CloseChannel(c)
           \/ ReceiveOnClosed(c)

NextTui ==
    \/ \E input \in Inputs : PressEnter(input)
    \/ TuiRuns

SpecTui == Init /\ [][NextTui]_vars

\* The same, Chat returning in the end and the program running on.
SpecTuiFair == SpecTui /\ WF_vars(TuiRuns)

\* ------------------------------------------------------------- properties

\* Two windows intersect: a.start < b.end and b.start < a.end.
Intersect(aStart, aEnd, bStart, bEnd) == aStart < bEnd /\ bStart < aEnd

\* C1: when a stored task other than excludeID has a window that intersects
\* the candidate (stored.start < end and start < stored.end), CheckOverlap
\* returns a task: one that is stored, is not excludeID and intersects the
\* candidate.
C1_OverlapReported ==
    last.op = "CheckOverlap" =>
        ((\E id \in DOMAIN db.rows :
              /\ id # last.args.excludeID
              /\ Intersect(db.rows[id].start_time, db.rows[id].end_time,
                           last.args.start, last.args.end))
         => /\ last.ret.err = Nil
            /\ last.ret.found
            /\ last.ret.task.id \in DOMAIN db.rows
            /\ last.ret.task = Scan(db, last.ret.task.id)
            /\ last.ret.task.id # last.args.excludeID
            /\ Intersect(last.ret.task.start_time, last.ret.task.end_time,
                         last.args.start, last.args.end))

\* A probe whose window starts inside a stored window and ends after it.
C1_Witness ==
    /\ last.op = "CheckOverlap"
    /\ last.ret.found
    /\ last.ret.task.start_time < last.args.start
    /\ last.args.start < last.ret.task.end_time
    /\ last.ret.task.end_time < last.args.end
    /\ \E id \in DOMAIN db.rows :
           /\ db.rows[id].start_time > last.args.start
           /\ db.rows[id].start_time < last.args.end

\* C2: when every stored task ends at or before the candidate's start or
\* starts at or after the candidate's end, CheckOverlap returns no task.
C2_NoOverlapNoConflict ==
    last.op = "CheckOverlap" =>
        ((\A id \in DOMAIN db.rows :
              \/ db.rows[id].end_time <= last.args.start
              \/ last.args.end <= db.rows[id].start_time)
         => /\ last.ret.err = Nil
            /\ ~last.ret.found)

\* A probe between two stored tasks, touching both.
C2_Witness ==
    /\ last.op = "CheckOverlap"
    /\ ~last.ret.found
    /\ last.args.start < last.args.end
    /\ \E a \in DOMAIN db.rows, b \in DOMAIN db.rows :
           /\ db.rows[a].start_time < db.rows[a].end_time
           /\ db.rows[a].end_time = last.args.start
           /\ db.rows[b].start_time = last.args.end
           /\ db.rows[b].start_time < db.rows[b].end_time
           /\ last.args.excludeID \notin {a, b}

\* C6: ListTasks returns every stored task exactly once, in non-decreasing
\* start_time order, and nothing when the store is empty.
C6_ListOrdered ==
    (last.op = "ListTasks" /\ last.ret.err = Nil) =>
        LET ts == last.ret.tasks
        IN /\ Len(ts) = Cardinality(DOMAIN db.rows)
           /\ \A id \in DOMAIN db.rows : \E i \in 1..Len(ts) : ts[i] = Scan(db, id)
           /\ \A i \in 1..Len(ts), j \in 1..Len(ts) :
                  i < j => ts[i].start_time <= ts[j].start_time
           /\ (DOMAIN db.rows = {} => ts = <<>>)

\* A listing of two tasks in which the later-created task comes first, one of
\* them marked reminded.
C6_Witness ==
    /\ last.op = "ListTasks"
    /\ Len(last.ret.tasks) = 2
    /\ last.ret.tasks[1].id > last.ret.tasks[2].id
    /\ last.ret.tasks[1].start_time < last.ret.tasks[2].start_time
    /\ last.ret.tasks[1].reminded

\* C7: after a successful UpdateTask the task's reminded flag is false.
C7_UpdateResetsReminded ==
    (last.op = "UpdateTask" /\ last.ret.err = Nil) =>
        /\ last.args.id \in DOMAIN db.rows
        /\ db.rows[last.args.id].reminded = FALSE

\* An update of a reminded task that changes none of its fields.
C7_Witness ==
    /\ last.op = "UpdateTask"
    /\ last.ret.err = Nil
    /\ last.args.id \in DOMAIN prev.rows
    /\ prev.rows[last.args.id].reminded
    /\ prev.rows[last.args.id] =
           [title |-> last.args.title, description |-> last.args.description,
            start_time |-> last.args.start_time, end_time |-> last.args.end_time,
            status |-> last.args.status, reminded |-> TRUE]

\* The tasks GetUpcomingTasks(d) is to return.
IsDue(id, d) ==
    /\ db.rows[id].start_time <= now + d
    /\ db.rows[id].reminded = FALSE
    /\ db.rows[id].status # StatusCompleted

\* C8: GetUpcomingTasks(d) returns exactly the stored tasks with
\* start_time <= now + d, reminded = false and status != completed, each once.
C8_UpcomingExact ==
    (last.op = "GetUpcomingTasks" /\ last.ret.err = Nil) =>
        LET ts == last.ret.tasks
            d == last.args.d
        IN /\ \A i \in 1..Len(ts) :
                  /\ ts[i].id \in DOMAIN db.rows
                  /\ ts[i] = Scan(db, ts[i].id)
                  /\ IsDue(ts[i].id, d)
           /\ \A id \in DOMAIN db.rows :
                  IsDue(id, d) => \E i \in 1..Len(ts) : ts[i].id = id
           /\ \A i \in 1..Len(ts), j \in 1..Len(ts) : ts[i].id = ts[j].id => i = j

\* A poll with d = 0 that returns a task MaxTime ticks overdue and leaves out a
\* completed task that is due.
C8_Witness ==
    /\ last.op = "GetUpcomingTasks"
    /\ last.args.d = 0
    /\ now = MaxTime
    /\ \E i \in 1..Len(last.ret.tasks) : last.ret.tasks[i].start_time = 0
    /\ \E id \in DOMAIN db.rows :
           /\ db.rows[id].status = StatusCompleted
           /\ db.rows[id].start_time <= now
           /\ ~db.rows[id].reminded
           /\ \A i \in 1..Len(last.ret.tasks) : last.ret.tasks[i].id # id

\* C9: GetTask on the id a successful AddTask returned yields the title,
\* description, start_time and end_time that were passed, that id, status
\* pending and reminded false.
C9_CreateGetRoundTrip ==
    (last.op = "AddTask" /\ last.ret.err = Nil) =>
        GetTask(db, last.ret.task.id) =
            [task |-> [id |-> last.ret.task.id,
                       title |-> last.args.title,
                       description |-> last.args.description,
                       start_time |-> last.args.start,
                       end_time |-> last.args.end,
                       status |-> StatusPending,
                       reminded |-> FALSE],
             err |-> Nil]

\* A creation beside another stored task, with a description.
C9_Witness ==
    /\ last.op = "AddTask"
    /\ last.ret.err = Nil
    /\ last.args.description # ""
    /\ DOMAIN prev.rows # {}
    /\ last.ret.task.id \notin DOMAIN prev.rows

\* C10: MarkAsReminded on a stored id returns no error and leaves the store as
\* it was but for reminded = true on that task; a second call on the same id
\* returns no error and changes nothing.
C10_MarkIdempotent ==
    (last.op = "MarkAsReminded" /\ last.args.id \in DOMAIN prev.rows) =>
        /\ last.ret.err = Nil
        /\ db = [prev EXCEPT !.rows[last.args.id].reminded = TRUE]
        /\ LET again == MarkAsReminded(db, last.args.id)
           IN /\ again.err = Nil
              /\ again.p = db

\* A second MarkAsReminded of a task, beside a task that is not reminded.
C10_Witness ==
    /\ last.op = "MarkAsReminded"
    /\ last.args.id \in DOMAIN prev.rows
    /\ prev.rows[last.args.id].reminded
    /\ db = prev
    /\ \E id \in DOMAIN db.rows : ~db.rows[id].reminded

\* The last call was CallTool(name, ...).
Invoked(name) == last.op = "CallTool" /\ last.args.name = name

\* The window an add_task call asks for, when both of its times parse.
AskedStart == ParseRFC3339(StringArg(last.args.arguments, "start_time").v)

AskedEnd == ParseRFC3339(StringArg(last.args.arguments, "end_time").v)

AllowOverlap == BoolArg(last.args.arguments, "allow_overlap").v

\* The task an update_task call on a stored id is to store.
Merged == MergeUpdate(Scan(prev, last.args.arguments["id"].v), last.args.arguments)

\* C3: on every database reached (looked at between two calls), CheckOverlap
\* never returns the task whose id is excludeID; and an update_task without
\* allow_overlap on a stored task whose resulting window intersects no other
\* stored task succeeds and stores that window.
C3_UpdateExcludesItself ==
    /\ last = NoCall =>
           \A w \in Windows, excludeID \in {0} \cup IDs :
               LET r == CheckOverlap(db, w[1], w[2], excludeID)
               IN r.found => r.task.id # excludeID
    /\ (/\ Invoked("update_task")
        /\ last.args.arguments["id"].v \in DOMAIN prev.rows
        /\ ~AllowOverlap
        /\ \A other \in DOMAIN prev.rows \ {last.args.arguments["id"].v} :
               ~Intersect(prev.rows[other].start_time, prev.rows[other].end_time,
                          Merged.start_time, Merged.end_time))
       => /\ last.ret.err = Nil
          /\ ~last.ret.result.isError
          /\ db.rows[Merged.id].start_time = Merged.start_time
          /\ db.rows[Merged.id].end_time = Merged.end_time

\* A successful update_task that moves a task to a window intersecting its
\* previous one, beside another stored task.
C3_Witness ==
    /\ Invoked("update_task")
    /\ ~last.ret.result.isError
    /\ LET id == last.args.arguments["id"].v
       IN /\ id \in DOMAIN prev.rows
          /\ Cardinality(DOMAIN prev.rows) = 2
          /\ prev.rows[id].start_time < prev.rows[id].end_time
          /\ db.rows[id].start_time < db.rows[id].end_time
          /\ prev.rows[id] # db.rows[id]
          /\ Intersect(prev.rows[id].start_time, prev.rows[id].end_time,
                       db.rows[id].start_time, db.rows[id].end_time)

\* C4: add_task without allow_overlap=true on a window that intersects a
\* stored task returns an error result that names a stored task intersecting
\* the window (its id, its title, its start and end as printed by "15:04"),
\* and leaves the database as it was.
C4_ConflictAborts ==
    (/\ Invoked("add_task")
     /\ AskedStart.ok /\ AskedEnd.ok
     /\ ~AllowOverlap
     /\ \E id \in DOMAIN prev.rows :
            Intersect(prev.rows[id].start_time, prev.rows[id].end_time,
                      AskedStart.t, AskedEnd.t))
    => /\ last.ret.err = Nil
       /\ last.ret.result.isError
       /\ last.ret.result.text.msg = "Time conflict with existing task"
       /\ LET named == last.ret.result.text.id
          IN /\ named \in DOMAIN prev.rows
             /\ Intersect(prev.rows[named].start_time, prev.rows[named].end_time,
                          AskedStart.t, AskedEnd.t)
             /\ last.ret.result.text.title = prev.rows[named].title
             /\ last.ret.result.text.from = Format1504(prev.rows[named].start_time)
             /\ last.ret.result.text.to = Format1504(prev.rows[named].end_time)
       /\ db = prev

\* A rejected add_task whose window starts inside a stored task's window.
C4_Witness ==
    /\ Invoked("add_task")
    /\ last.ret.result.isError
    /\ AskedStart.ok /\ AskedEnd.ok
    /\ AskedStart.t < AskedEnd.t
    /\ \E id \in DOMAIN db.rows :
           /\ db.rows[id].start_time < AskedStart.t
           /\ AskedStart.t < db.rows[id].end_time
           /\ db.rows[id].end_time < AskedEnd.t

\* C5: add_task with allow_overlap=true and parsable timestamps returns
\* success and adds exactly one task, with the window asked for, to the tasks
\* stored before, which stay as they were; the listing then holds them all.
C5_OverrideCreates ==
    (/\ Invoked("add_task")
     /\ AskedStart.ok /\ AskedEnd.ok
     /\ AllowOverlap)
    => /\ last.ret.err = Nil
       /\ ~last.ret.result.isError
       /\ LET id == last.ret.result.text.id
          IN /\ id \notin DOMAIN prev.rows
             /\ DOMAIN db.rows = DOMAIN prev.rows \cup {id}
             /\ \A old \in DOMAIN prev.rows : db.rows[old] = prev.rows[old]
             /\ db.rows[id] =
                    [title |-> StringArg(last.args.arguments, "title").v,
                     description |-> StringArg(last.args.arguments, "description").v,
                     start_time |-> AskedStart.t, end_time |-> AskedEnd.t,
                     status |-> StatusPending, reminded |-> FALSE]
             /\ LET listed == ListTasks(db).tasks
                IN /\ Len(listed) = Cardinality(DOMAIN prev.rows) + 1
                   /\ \E i \in 1..Len(listed) : listed[i] = Scan(db, id)

\* T1 is stored alone; the add of T2, starting inside T1 and ending after it,
\* is rejected without allow_overlap and has just succeeded with it: the
\* store holds T1 and T2.
C5_Witness ==
    /\ Invoked("add_task")
    /\ AllowOverlap
    /\ ~last.ret.result.isError
    /\ Cardinality(DOMAIN prev.rows) = 1
    /\ Cardinality(DOMAIN db.rows) = 2
    /\ \E t1 \in DOMAIN prev.rows :
           /\ prev.rows[t1].start_time < AskedStart.t
           /\ AskedStart.t < prev.rows[t1].end_time
           /\ prev.rows[t1].end_time < AskedEnd.t
    /\ handleAddTask(prev, [k \in DOMAIN last.args.arguments \ {"allow_overlap"} |->
                               last.args.arguments[k]]).result.isError

\* C11: the tasks of the store have pairwise different ids; the id AddTask
\* returns is the id of no task stored when it was called, and the tasks stored
\* then are still there under their ids; UpdateTask, MarkAsReminded and
\* update_task leave the set of stored ids as it was.
C11_IdsUniqueImmutable ==
    /\ LET ts == ListTasks(db).tasks
       IN \A i \in 1..Len(ts), j \in 1..Len(ts) : i # j => ts[i].id # ts[j].id
    /\ (last.op = "AddTask" /\ last.ret.err = Nil) =>
           /\ last.ret.task.id \notin DOMAIN prev.rows
           /\ DOMAIN db.rows = DOMAIN prev.rows \cup {last.ret.task.id}
           /\ \A id \in DOMAIN prev.rows : db.rows[id] = prev.rows[id]
    /\ (last.op \in {"UpdateTask", "MarkAsReminded"} \/ Invoked("update_task")) =>
           DOMAIN db.rows = DOMAIN prev.rows

\* An AddTask after the only task was deleted: the id of the deleted task is
\* not handed out again.
C11_Witness ==
    /\ last.op = "AddTask"
    /\ last.ret.err = Nil
    /\ prev.seq > 0
    /\ prev.rows = <<>>
    /\ last.ret.task.id > prev.seq
    /\ last.ret.task.id \in DOMAIN db.rows

\* C12: UpdateTask of an id that is not stored returns the not-found error and
\* leaves the database as it was.
C12_UpdateUnknownId ==
    (last.op = "UpdateTask" /\ last.args.id \notin DOMAIN prev.rows) =>
        /\ last.ret.err = ErrNotFound
        /\ db = prev

\* An UpdateTask of an id that was deleted, beside a stored task.
C12_Witness ==
    /\ last.op = "UpdateTask"
    /\ last.args.id \notin DOMAIN prev.rows
    /\ last.args.id <= prev.seq
    /\ prev.rows # <<>>
    /\ last.ret.err = ErrNotFound

\* What a DeleteTask call has done when it returns.
DeleteOutcome ==
    last.op = "DeleteTask" =>
        IF last.args.id \in DOMAIN prev.rows
        THEN /\ last.ret.err = Nil
             /\ DOMAIN db.rows = DOMAIN prev.rows \ {last.args.id}
             /\ \A other \in DOMAIN db.rows : db.rows[other] = prev.rows[other]
             /\ GetTask(db, last.args.id).err = ErrNotFound
        ELSE /\ last.ret.err = ErrNotFound
             /\ db = prev

\* C13: DeleteTask of a stored id removes that task and no other, and GetTask
\* of it then fails with not-found; DeleteTask of an id that is not stored
\* returns not-found and leaves the database as it was.  A deleted id stays
\* deleted: every stored id is one the sequence has handed out (id <= seq),
\* the sequence never goes back, and an id handed out and not stored is not
\* stored in the next state either, so GetTask of it fails in every later
\* state.
C13_DeletePermanent ==
    /\ [](DeleteOutcome)
    /\ [](DOMAIN db.rows \subseteq 1..db.seq)
    /\ []((last.op = "GetTask" /\ last.args.id \notin DOMAIN db.rows) =>
              last.ret.err = ErrNotFound)
    /\ [][/\ db.seq <= db'.seq
          /\ \A id \in IDs :
                 (id <= db.seq /\ id \notin DOMAIN db.rows) =>
                     (id \notin DOMAIN db.rows /\ GetTask(db, id).err = ErrNotFound)']_vars

\* GetTask of a deleted id, after a task was created since the deletion.
C13_Witness ==
    /\ last.op = "GetTask"
    /\ last.args.id < db.seq
    /\ last.args.id \notin DOMAIN db.rows
    /\ db.rows # <<>>
    /\ last.ret.err = ErrNotFound

\* C14: the status of every stored task is one of pending, in_progress,
\* completed.
C14_StatusValid ==
    \A id \in DOMAIN db.rows : db.rows[id].status \in Statuses

\* C15: every stored task has a non-empty title.
C15_TitleNonEmpty ==
    \A id \in DOMAIN db.rows : db.rows[id].title # ""

\* C16: AddTask of a window that starts after it ends succeeds and stores the
\* window as given; add_task of such a window never answers that a time is
\* invalid: it is refused only for a conflict (allow_overlap not true and a
\* stored task with start_time < end and end_time > start), and otherwise the
\* task is created with the window as given.
C16_BackwardWindowAccepted ==
    /\ (last.op = "AddTask" /\ last.args.start > last.args.end) =>
           /\ last.ret.err = Nil
           /\ last.ret.task.start_time = last.args.start
           /\ last.ret.task.end_time = last.args.end
           /\ last.ret.task.id \notin DOMAIN prev.rows
           /\ Scan(db, last.ret.task.id) = last.ret.task
    /\ (/\ Invoked("add_task")
        /\ AskedStart.ok /\ AskedEnd.ok
        /\ AskedStart.t > AskedEnd.t) =>
           LET conflicting ==
                   \E id \in DOMAIN prev.rows :
                       Intersect(prev.rows[id].start_time, prev.rows[id].end_time,
                                 AskedStart.t, AskedEnd.t)
           IN /\ last.ret.err = Nil
              /\ last.ret.result.isError <=> (~AllowOverlap /\ conflicting)
              /\ last.ret.result.isError =>
                     last.ret.result.text.msg = "Time conflict with existing task"
              /\ ~last.ret.result.isError =>
                     LET id == last.ret.result.text.id
                     IN /\ id \notin DOMAIN prev.rows
                        /\ id \in DOMAIN db.rows
                        /\ db.rows[id].start_time = AskedStart.t
                        /\ db.rows[id].end_time = AskedEnd.t

\* An add_task without allow_overlap whose window starts after it ends, on a
\* store that holds a task: the task is created.
C16_Witness ==
    /\ Invoked("add_task")
    /\ AskedStart.ok /\ AskedEnd.ok
    /\ AskedStart.t > AskedEnd.t
    /\ ~AllowOverlap
    /\ prev.rows # <<>>
    /\ ~last.ret.result.isError
    /\ db.rows[last.ret.result.text.id].start_time > db.rows[last.ret.result.text.id].end_time

\* C18: add_task with a start_time or an end_time that time.Parse refuses
\* returns an error result that says which, with a nil error, and leaves the
\* database as it was, whatever allow_overlap is.
C18_MalformedTimeRejected ==
    (Invoked("add_task") /\ (~AskedStart.ok \/ ~AskedEnd.ok)) =>
        /\ last.ret.err = Nil
        /\ last.ret.result.isError
        /\ last.ret.result.text.msg =
               IF ~AskedStart.ok THEN "Invalid start_time format"
               ELSE "Invalid end_time format"
        /\ db = prev

\* An add_task with allow_overlap=true, a well-formed start_time and an
\* end_time that is no timestamp, on a store that holds a task.
C18_Witness ==
    /\ Invoked("add_task")
    /\ AllowOverlap
    /\ AskedStart.ok
    /\ ~AskedEnd.ok
    /\ "end_time" \in DOMAIN last.args.arguments
    /\ prev.rows # <<>>
    /\ last.ret.result.isError
    /\ db = prev

\* C17: CallTool of a tool of the catalog returns a result and a nil error,
\* whatever the arguments; while the database does not answer the call leaves
\* it as it was and every tool that reads or writes tasks returns an error
\* result.
C17_CallToolReturnsResult ==
    (last.op = "CallTool" /\ last.args.name \in Catalog) =>
        /\ last.ret.err = Nil
        /\ last.ret.result # NoResult
        /\ last.ret.result.isError \in BOOLEAN
        /\ ~dbOK =>
               /\ db = prev
               /\ last.args.name # "current_time" => last.ret.result.isError

\* An update_task of a stored task while the database does not answer.
C17_Witness ==
    /\ Invoked("update_task")
    /\ ~dbOK
    /\ "id" \in DOMAIN last.args.arguments
    /\ last.args.arguments["id"] = Num(1)
    /\ 1 \in DOMAIN db.rows
    /\ last.ret.result.isError
    /\ last.ret.result.text.msg = "Failed to find task"
    /\ last.ret.err = Nil

\* ---- update_task: what a call asks for

UpdateArgs == last.args.arguments

\* The call is an update_task of a task that was stored.
UpdatesStored ==
    /\ Invoked("update_task")
    /\ "id" \in DOMAIN UpdateArgs
    /\ UpdateArgs["id"].type = "number"
    /\ UpdateArgs["id"].v \in DOMAIN prev.rows

UpdatedId == UpdateArgs["id"].v

\* The argument is a string.
IsText(key) == key \in DOMAIN UpdateArgs /\ UpdateArgs[key].type = "string"

\* The argument is a non-empty string.
IsWord(key) == IsText(key) /\ UpdateArgs[key].v # ""

\* The argument is the RFC3339 text of an instant.
IsTime(key) == IsText(key) /\ ParseRFC3339(UpdateArgs[key].v).ok

\* The row the call is to leave: each of the five fields is the argument when
\* that is usable (a non-empty title or status, a description, a time that
\* parses) and the stored value otherwise.
WantedRow ==
    LET old == prev.rows[UpdatedId]
    IN [title |-> IF IsWord("title") THEN UpdateArgs["title"].v ELSE old.title,
        description |-> IF IsText("description") THEN UpdateArgs["description"].v
                        ELSE old.description,
        start_time |-> IF IsTime("start_time")
                       THEN ParseRFC3339(UpdateArgs["start_time"].v).t
                       ELSE old.start_time,
        end_time |-> IF IsTime("end_time")
                     THEN ParseRFC3339(UpdateArgs["end_time"].v).t
                     ELSE old.end_time,
        status |-> IF IsWord("status") THEN UpdateArgs["status"].v ELSE old.status,
        reminded |-> FALSE]

\* Another stored task meets the window the call is to leave.
WantedWindowTaken ==
    \E other \in DOMAIN prev.rows \ {UpdatedId} :
        Intersect(prev.rows[other].start_time, prev.rows[other].end_time,
                  WantedRow.start_time, WantedRow.end_time)

\* C19: update_task of a stored task with a start_time or end_time that is
\* given and does not parse returns a nil error and is refused only for a
\* conflict of the resulting window (allow_overlap not true), leaving the
\* database as it was; otherwise it returns success and the task is stored
\* with the unparsable time at its stored value and every other usable
\* argument applied.
C19_UnparsableTimeSkipped ==
    (/\ UpdatesStored
     /\ \/ ("start_time" \in DOMAIN UpdateArgs /\ ~IsTime("start_time"))
        \/ ("end_time" \in DOMAIN UpdateArgs /\ ~IsTime("end_time")))
    => /\ last.ret.err = Nil
       /\ last.ret.result.isError <=> (~AllowOverlap /\ WantedWindowTaken)
       /\ last.ret.result.isError =>
              /\ last.ret.result.text.msg = "Time conflict with existing task"
              /\ db = prev
       /\ ~last.ret.result.isError =>
              /\ last.ret.result.text.msg = "Task updated successfully"
              /\ db.rows[UpdatedId] = WantedRow
              /\ ("start_time" \in DOMAIN UpdateArgs /\ ~IsTime("start_time")) =>
                     db.rows[UpdatedId].start_time = prev.rows[UpdatedId].start_time
              /\ ("end_time" \in DOMAIN UpdateArgs /\ ~IsTime("end_time")) =>
                     db.rows[UpdatedId].end_time = prev.rows[UpdatedId].end_time

\* A successful update_task with a start_time that is no timestamp and a new
\* description: the description is stored, the start_time is the old one.
C19_Witness ==
    /\ UpdatesStored
    /\ IsText("start_time")
    /\ ~IsTime("start_time")
    /\ ~last.ret.result.isError
    /\ IsText("description")
    /\ db.rows[UpdatedId].description # prev.rows[UpdatedId].description
    /\ db.rows[UpdatedId].description = UpdateArgs["description"].v
    /\ db.rows[UpdatedId].start_time = prev.rows[UpdatedId].start_time
    /\ prev.rows[UpdatedId].start_time > 0

\* The update_task call of a stored task returned success.
UpdateSucceeded ==
    /\ UpdatesStored
    /\ last.ret.err = Nil
    /\ ~last.ret.result.isError

\* The stored ids are those stored before and every task but the updated one
\* is as it was.
OthersUntouched ==
    /\ DOMAIN db.rows = DOMAIN prev.rows
    /\ db.seq = prev.seq
    /\ \A other \in DOMAIN prev.rows \ {UpdatedId} : db.rows[other] = prev.rows[other]

\* C20 as stated: after a successful update_task each of title, description,
\* status, start_time, end_time is the argument's value when the call carries
\* that argument and the stored value when it does not; the other tasks and
\* the ids are as they were.
C20_ProvidedFieldsWritten ==
    UpdateSucceeded =>
        LET old == prev.rows[UpdatedId]
            new == db.rows[UpdatedId]
        IN /\ OthersUntouched
           /\ IF "title" \in DOMAIN UpdateArgs
              THEN IsText("title") /\ new.title = UpdateArgs["title"].v
              ELSE new.title = old.title
           /\ IF "description" \in DOMAIN UpdateArgs
              THEN IsText("description") /\ new.description = UpdateArgs["description"].v
              ELSE new.description = old.description
           /\ IF "status" \in DOMAIN UpdateArgs
              THEN IsText("status") /\ new.status = UpdateArgs["status"].v
              ELSE new.status = old.status
           /\ IF "start_time" \in DOMAIN UpdateArgs
              THEN /\ IsTime("start_time")
                   /\ new.start_time = ParseRFC3339(UpdateArgs["start_time"].v).t
              ELSE new.start_time = old.start_time
           /\ IF "end_time" \in DOMAIN UpdateArgs
              THEN /\ IsTime("end_time")
                   /\ new.end_time = ParseRFC3339(UpdateArgs["end_time"].v).t
              ELSE new.end_time = old.end_time

\* C20 amended: after a successful update_task each of title, description,
\* status, start_time, end_time is the argument's value when the argument is
\* usable (a non-empty string for title and status, a string for description,
\* an RFC3339 text for start_time and end_time) and the stored value when it
\* is absent or not usable; the other tasks and the ids are as they were.
C20_UsableFieldsWritten ==
    UpdateSucceeded =>
        /\ OthersUntouched
        /\ db.rows[UpdatedId].title = WantedRow.title
        /\ db.rows[UpdatedId].description = WantedRow.description
        /\ db.rows[UpdatedId].status = WantedRow.status
        /\ db.rows[UpdatedId].start_time = WantedRow.start_time
        /\ db.rows[UpdatedId].end_time = WantedRow.end_time

\* A successful update_task that carries a new title only, on a task whose
\* description, status and window have been changed since its creation,
\* beside another stored task.
C20_Witness ==
    /\ UpdateSucceeded
    /\ DOMAIN UpdateArgs = {"id", "title"}
    /\ IsWord("title")
    /\ db.rows[UpdatedId].title # prev.rows[UpdatedId].title
    /\ db.rows[UpdatedId].description = "weekly"
    /\ db.rows[UpdatedId].status = StatusCompleted
    /\ db.rows[UpdatedId].start_time = 1
    /\ db.rows[UpdatedId].end_time = 2
    /\ Cardinality(DOMAIN db.rows) = 2

\* C21: update_task without allow_overlap=true on a stored task, whose
\* resulting window (the stored fields with the provided ones merged in)
\* intersects another stored task, returns an error result that names a
\* stored task other than the target intersecting that window, and leaves
\* the database as it was: the target keeps every field and its reminded flag.
C21_UpdateConflictAborts ==
    (/\ Invoked("update_task")
     /\ last.args.arguments["id"].v \in DOMAIN prev.rows
     /\ ~AllowOverlap
     /\ \E other \in DOMAIN prev.rows \ {last.args.arguments["id"].v} :
            Intersect(prev.rows[other].start_time, prev.rows[other].end_time,
                      Merged.start_time, Merged.end_time))
    => /\ last.ret.err = Nil
       /\ last.ret.result.isError
       /\ last.ret.result.text.msg = "Time conflict with existing task"
       /\ LET named == last.ret.result.text.id
          IN /\ named \in DOMAIN prev.rows \ {Merged.id}
             /\ Intersect(prev.rows[named].start_time, prev.rows[named].end_time,
                          Merged.start_time, Merged.end_time)
             /\ last.ret.result.text.title = prev.rows[named].title
             /\ last.ret.result.text.from = Format1504(prev.rows[named].start_time)
             /\ last.ret.result.text.to = Format1504(prev.rows[named].end_time)
       /\ db = prev
       /\ db.rows[Merged.id] = prev.rows[Merged.id]
       /\ db.rows[Merged.id].reminded = prev.rows[Merged.id].reminded

\* A reminded task whose end was to move into the next task's window: the
\* update was refused and the task is still reminded.
C21_Witness ==
    /\ Invoked("update_task")
    /\ last.ret.result.isError
    /\ LET id == last.args.arguments["id"].v
       IN /\ id \in DOMAIN prev.rows
          /\ prev.rows[id].reminded
          /\ db.rows[id].reminded
          /\ Merged.end_time > prev.rows[id].end_time
          /\ \E other \in DOMAIN prev.rows \ {id} :
                 /\ prev.rows[id].end_time <= prev.rows[other].start_time
                 /\ prev.rows[other].start_time < Merged.end_time

\* The positions of the assistant messages that request tools.
ToolRequests ==
    {k \in 1..Len(agent.history) :
        /\ agent.history[k].role = RoleAssistant
        /\ Len(agent.history[k].tool_calls) > 0}

\* The number of tool messages that directly follow position k.
RECURSIVE ToolTurnsAfter(_)
ToolTurnsAfter(k) ==
    IF k < Len(agent.history) /\ agent.history[k + 1].role = RoleTool
    THEN 1 + ToolTurnsAfter(k + 1)
    ELSE 0

\* The tool message at position k reports a task added under this id (0: none).
AddedId(k) ==
    LET c == agent.history[k].content
    IN IF c.error = Nil /\ "id" \in DOMAIN c.lines[1]
          /\ c.lines[1].msg = "Task added"
       THEN c.lines[1].id ELSE 0

\* The tool message at position k is a listing that holds task id.
Lists(k, id) ==
    LET c == agent.history[k].content
    IN /\ c.error = Nil
       /\ "items" \in DOMAIN c.lines[1]
       /\ \E n \in 1..Len(c.lines[1].items) : c.lines[1].items[n].id = id

\* C22: the tool calls of a response are dispatched one at a time in the
\* order the model listed them: while the loop is at its i-th call the
\* history ends with the assistant message and the answers to the calls
\* before it, in order; and whenever a response asked for add_task and later
\* for list_tasks, and add_task reported a new task, the answer to list_tasks
\* holds that task.
C22_SequentialDispatch ==
    /\ agent.pc = "tools" =>
           LET k == Len(agent.history) - (agent.i - 1)
           IN /\ k \in ToolRequests
              /\ agent.history[k].tool_calls = agent.calls
              /\ agent.dispatched >= agent.i - 1
              /\ \A j \in 1..(agent.i - 1) :
                     /\ agent.history[k + j].role = RoleTool
                     /\ agent.history[k + j].tool_call_id = agent.calls[j].id
    /\ \A k \in ToolRequests :
           \A j \in 1..ToolTurnsAfter(k), m \in 1..ToolTurnsAfter(k) :
               (/\ j < m
                /\ agent.history[k].tool_calls[j].name = "add_task"
                /\ agent.history[k].tool_calls[m].name = "list_tasks"
                /\ AddedId(k + j) # 0)
               => /\ Lists(k + m, AddedId(k + j))
                  /\ AddedId(k + j) \in DOMAIN db.rows

\* add_task then list_tasks were asked for in one response, the task was
\* added and the listing that follows holds it.
C22_Witness ==
    \E k \in ToolRequests :
        /\ ToolTurnsAfter(k) = 2
        /\ agent.history[k].tool_calls[1].name = "add_task"
        /\ agent.history[k].tool_calls[2].name = "list_tasks"
        /\ AddedId(k + 1) # 0
        /\ Lists(k + 2, AddedId(k + 1))

\* In messages, every assistant message that requests tools is directly
\* followed by exactly one tool message per requested call, in request
\* order, each with the call's id and a result text or an error string.
Answered(messages) ==
    \A k \in 1..Len(messages) :
        (messages[k].role = RoleAssistant /\ Len(messages[k].tool_calls) > 0)
        => LET calls == messages[k].tool_calls
           IN /\ k + Len(calls) <= Len(messages)
              /\ \A j \in 1..Len(calls) :
                     /\ messages[k + j].role = RoleTool
                     /\ messages[k + j].tool_call_id = calls[j].id
                     /\ \/ messages[k + j].content.error # Nil
                        \/ Len(messages[k + j].content.lines) > 0
              /\ k + Len(calls) < Len(messages)
                     => messages[k + Len(calls) + 1].role # RoleTool

\* C23: the messages of every model request hold, directly after each
\* assistant message that requested tools, exactly one tool message per
\* requested call, in request order, with the call's id and its result text
\* or an error string; also when the arguments of a call do not parse.
C23_EveryCallAnswered == Answered(agent.sent)

\* The model has just answered, with a message that requests no tool.
FinalResponse ==
    /\ agent.pc = "request"
    /\ agent'.requests = agent.requests + 1
    /\ agent'.resp.err = Nil
    /\ Len(agent'.resp.choices) > 0
    /\ Len(agent'.resp.choices[1].tool_calls) = 0

\* C24: on a response that requests no tool, Chat appends the assistant
\* message to the history and returns its text with a nil error, the
\* database untouched; and once Chat has returned an answer, the last model
\* request of the call is the one this answer came from and no tool call
\* followed it: requests and dispatched stay, the history ends with the
\* answer.
C24_FinalAnswerEndsTurn ==
    /\ [][FinalResponse =>
             /\ agent'.history = Append(agent.history, agent'.resp.choices[1])
             /\ agent'.pc = "idle"
             /\ agent'.ret = Returned(agent'.resp.choices[1].content, Nil)
             /\ agent'.dispatched = agent.dispatched
             /\ db' = db]_vars
    /\ []((agent.pc = "idle" /\ agent.ret.err = Nil) =>
             /\ agent.resp.err = Nil
             /\ agent.history = Append(agent.sent, agent.resp.choices[1])
             /\ agent.history[Len(agent.history)].role = RoleAssistant
             /\ agent.history[Len(agent.history)].tool_calls = <<>>
             /\ agent.ret.text = agent.history[Len(agent.history)].content)
    /\ [][(agent.pc = "idle" /\ agent'.pc = "idle") =>
             (agent' = agent /\ db' = db)]_vars

\* Chat has returned the model's answer after two model requests and two
\* tool calls.
C24_Witness ==
    /\ agent.pc = "idle"
    /\ agent.ret = Returned("Done.", Nil)
    /\ agent.requests = 2
    /\ agent.dispatched = 2

\* The model call has just failed: the request returned an error, or a
\* response without choices.
FailedCall ==
    /\ agent.pc = "request"
    /\ agent'.requests = agent.requests + 1
    /\ (agent'.resp.err # Nil \/ Len(agent'.resp.choices) = 0)

\* A history the model accepts: it starts with the system message and every
\* requested tool call is answered.
Acceptable(history) ==
    /\ Len(history) > 0
    /\ history[1].role = RoleSystem
    /\ Answered(history)

\* C25: a failed model call makes Chat return an error and no text, calls no
\* tool and leaves the database and every message of the history as they
\* were; the history the next Chat call starts from is one the model accepts.
C25_FailedCallKeepsHistory ==
    [][FailedCall =>
          /\ agent'.pc = "idle"
          /\ agent'.ret.err \in {ErrRequest, ErrNoChoices}
          /\ agent'.ret.text = ""
          /\ agent'.dispatched = agent.dispatched
          /\ db' = db
          /\ agent'.history = agent.history
          /\ Acceptable(agent'.history)]_vars

\* C26: the history always starts with a system message; the step that
\* enters Chat writes the prompt of the current time into it, before the
\* user message is appended (the history keeps its length in that step) and
\* before any model request (none is counted yet); the rest of the call
\* leaves the first message alone, so every request of the call is sent it.
C26_SystemPromptFresh ==
    /\ [](/\ Len(agent.history) >= 1
          /\ agent.history[1].role = RoleSystem
          /\ agent.sent # NoMessages => agent.sent[1] = agent.history[1])
    /\ [][(agent.pc = "idle" /\ agent'.pc # "idle") =>
             /\ agent'.history[1] = Message(RoleSystem, SystemPrompt(now))
             /\ Len(agent'.history) = Len(agent.history)
             /\ \A k \in 2..Len(agent.history) : agent'.history[k] = agent.history[k]
             /\ agent'.pc = "user"
             /\ agent'.requests = 0
             /\ agent'.sent = NoMessages]_vars
    /\ [][agent.pc # "idle" => agent'.history[1] = agent.history[1]]_vars
    /\ [][(agent.pc = "user" /\ agent' # agent) =>
             agent'.history = Append(agent.history, Message(RoleUser, agent.prompt))]_vars

\* A model request of a second Chat call, entered after the clock moved: it
\* carries the prompt of the new time and both user messages.
C26_Witness ==
    /\ agent.requests >= 1
    /\ now > 0
    /\ agent.sent[1].content = SystemPrompt(now)
    /\ Cardinality({k \in 1..Len(agent.sent) : agent.sent[k].role = RoleUser}) = 2

\* The loop over the tool calls has just met arguments that do not parse.
ParseFailure ==
    /\ agent.pc = "tools"
    /\ agent'.ret.err = ErrParseArguments

\* C27: a Chat call ends only on a response that requests no tool, on a
\* failed model call or on tool arguments that do not parse: a response that
\* requests tools whose arguments parse never ends it, however many requests
\* the call has made, so against a model that always requests tools the call
\* does not return.
C27_NoIterationBound ==
    /\ [][(agent.pc # "idle" /\ agent'.pc = "idle") =>
             (FinalResponse \/ FailedCall \/ ParseFailure)]_vars
    /\ [][(/\ agent.pc = "request"
            /\ agent'.requests = agent.requests + 1
            /\ agent'.resp.err = Nil
            /\ Len(agent'.resp.choices) > 0
            /\ Len(agent'.resp.choices[1].tool_calls) > 0)
           => (agent'.pc = "tools" /\ agent'.ret = NotReturned)]_vars
    /\ [][(agent.pc = "tools" /\ agent' # agent /\ ~ParseFailure)
           => (agent'.pc \in {"tools", "request"} /\ agent'.ret = NotReturned)]_vars

\* A Chat call that has made three model requests, each answered with a
\* tool request, and is about to make the next.
C27_Witness ==
    /\ agent.pc = "request"
    /\ agent.requests = 3
    /\ agent.dispatched >= 3
    /\ agent.ret = NotReturned

IdsOf(seq) == [n \in 1..Len(seq) |-> seq[n].id]

\* C29: the tasks GetUpcomingTasks(0) returned are handled one after the
\* other, none skipped: inside the batch the tasks done and the tasks to
\* come make up the batch polled, and back at the ticker every polled task
\* is done, whatever Notify and MarkAsReminded returned.  Handling a task is
\* one Notify call and then MarkAsReminded on its id: when the mark succeeds
\* the task, if still stored, is reminded and no other row changes; when it
\* fails the database stays.  A failing GetUpcomingTasks handles no task and
\* leaves the goroutine at the ticker, waiting for the next tick.
C29_BatchSurvivesFailures ==
    /\ [](/\ sched.pc \in {"wait", "batch"}
          /\ sched.pc = "batch" =>
                 /\ Len(sched.batch) > 0
                 /\ IdsOf(sched.done) \o IdsOf(sched.batch) = IdsOf(sched.polled)
          /\ sched.pc = "wait" =>
                 /\ sched.batch = <<>>
                 /\ IdsOf(sched.done) = IdsOf(sched.polled)
                 /\ sched.pollErr # Nil => sched.polled = <<>>)
    /\ [][(sched.pc = "batch" /\ sched' # sched) =>
             LET id == Head(sched.batch).id
                 entry == sched'.done[Len(sched'.done)]
             IN /\ Len(sched'.done) = Len(sched.done) + 1
                /\ entry.id = id
                /\ sched'.notices[id] = IF sched.notices[id] < MaxNotices
                                        THEN sched.notices[id] + 1
                                        ELSE sched.notices[id]
                /\ entry.markErr = Nil =>
                       /\ DOMAIN db'.rows = DOMAIN db.rows
                       /\ id \in DOMAIN db.rows => db'.rows[id].reminded
                       /\ \A other \in DOMAIN db.rows \ {id} :
                              db'.rows[other] = db.rows[other]
                /\ entry.markErr # Nil => db' = db]_vars
    /\ [][(sched.pc = "wait" /\ sched' # sched /\ ~dbOK) =>
             /\ sched'.pc = "wait"
             /\ sched'.pollErr # Nil
             /\ sched'.done = <<>>
             /\ sched'.notices = sched.notices
             /\ db' = db]_vars

\* A batch of two tasks handled to its end: the mark of the first failed,
\* the notification of the second failed and its mark succeeded.
C29_Witness ==
    /\ sched.pc = "wait"
    /\ sched.pollErr = Nil
    /\ Len(sched.done) = 2
    /\ sched.done[1].markErr # Nil
    /\ sched.done[2].notifyErr # Nil
    /\ sched.done[2].markErr = Nil
    /\ db.rows[sched.done[2].id].reminded
    /\ ~db.rows[sched.done[1].id].reminded

\* C30: while MarkAsReminded succeeds and no task is updated, the reminder
\* goroutine calls Notify at most once for a task, over any number of ticks
\* (a notification emitted is a Notify call that returned no error); and a
\* task it has notified is marked reminded as long as it is stored.
C30_RemindedOnce ==
    \A id \in IDs :
        /\ sched.notices[id] <= 1
        /\ (sched.notices[id] = 1 /\ id \in DOMAIN db.rows) => db.rows[id].reminded
        /\ Cardinality({n \in 1..Len(sched.batch) : sched.batch[n].id = id})
               + sched.notices[id] <= 1

\* Both tasks were notified at earlier ticks and are still stored and due:
\* the tick that has just passed found nothing to notify.
C30_Witness ==
    /\ sched.pc = "wait"
    /\ sched.pollErr = Nil
    /\ sched.polled = <<>>
    /\ Cardinality(DOMAIN db.rows) = 2
    /\ \A id \in DOMAIN db.rows :
           /\ sched.notices[id] = 1
           /\ db.rows[id].start_time <= now
           /\ db.rows[id].start_time < now => db.rows[id].reminded

\* The chat goroutines that have not yet closed their channel.
InFlight == {c \in 1..Len(tui.chans) : tui.chans[c].pc # "done"}

\* C31: at most one agent turn is in flight, and none when isThinking is
\* false; while isThinking is true Enter, whatever the input, leaves the
\* model as it is (no goroutine, no message); and isThinking goes from true
\* to false only when Update takes a finishMsg that comes from the closed
\* channel of the running turn.
C31_OneTurnInFlight ==
    /\ [](/\ Cardinality(InFlight) <= 1
          /\ ~tui.isThinking => InFlight = {}
          /\ tui.isThinking =>
                 /\ InFlight \subseteq {tui.sub}
                 /\ \A input \in Inputs : UpdateKeyEnter(tui, input) = tui)
    /\ [][tui.isThinking /\ ~tui'.isThinking =>
             /\ Len(tui.msgs) > 0
             /\ Head(tui.msgs) = FinishMsg
             /\ tui.chans[tui.sub].closed
             /\ tui.chans[tui.sub].finishes = 1
             /\ tui' = UpdateFinishMsg([tui EXCEPT !.msgs = Tail(@)])]_vars

\* A second turn runs, the first one answered.
C31_Witness ==
    /\ tui.isThinking
    /\ Len(tui.chans) = 2
    /\ Len(tui.messages) = 3
    /\ tui.chans[2].pc = "chat"

RECURSIVE Concat(_)
\* The concatenation of a sequence of strings.
Concat(tokens) ==
    IF tokens = <<>> THEN "" ELSE Head(tokens) \o Concat(Tail(tokens))

\* The tokens of the tokenMsg waiting for Update.
PendingTokens ==
    LET toks == SelectSeq(tui.msgs, LAMBDA msg : msg.type = "tokenMsg")
    IN [i \in 1..Len(toks) |-> toks[i].token]

\* What the goroutine of channel c has put on the channel and what it is
\* about to put.
Sent(c) ==
    IF tui.chans[c].failed
    THEN Append(tui.chans[c].produced, ErrorText(ErrRequest))
    ELSE tui.chans[c].produced

\* The answer shown for the turn of channel c.
Shown(c) == tui.messages[2 * c].text

\* The turn of channel c has had its finish event.
Finished(c) == Len(tui.messages) >= 2 * c

\* Every value sent on the channel of a turn reaches the response once and
\* in order: of the running turn, the response so far, the tokens on their
\* way to Update and the value the goroutine is sending make up expected(c);
\* of a finished turn the answer shown is expected(c).  A finishMsg is the
\* last message on its way, comes from a closed channel, and no channel
\* gives two.
Delivery(expected(_)) ==
    /\ \A c \in 1..Len(tui.chans) :
          /\ tui.chans[c].finishes <= 1
          /\ tui.chans[c].finishes = 1 => tui.chans[c].closed
          /\ Finished(c) => tui.chans[c].finishes = 1 /\ Shown(c) = expected(c)
          /\ ~Finished(c) =>
                 /\ c = tui.sub /\ tui.isThinking
                 /\ tui.currentResp \o Concat(PendingTokens) \o tui.chans[c].out
                        = expected(c)
    /\ \A i \in 1..Len(tui.msgs) :
          tui.msgs[i] = FinishMsg =>
             /\ i = Len(tui.msgs)
             /\ tui.isThinking /\ tui.chans[tui.sub].finishes = 1

\* The turn that is running has its finish event in the end.
FinishOccurs ==
    (tui.isThinking /\ ~Finished(tui.sub)) ~> (~tui.isThinking /\ Finished(tui.sub))

ProducedTokens(c) == Concat(tui.chans[c].produced)

SentValues(c) == Concat(Sent(c))

\* C32 as stated: the response shown for a turn is the concatenation of
\* the tokens the callback was given, one finish event follows the last
\* token whether Chat failed or not, and the finish event occurs.
C32_ResponseIsTokens == []Delivery(ProducedTokens) /\ FinishOccurs

\* C32: the response shown for a turn is the concatenation of the tokens
\* the callback was given, each once and in production order, followed by
\* the error text when Chat returned an error; one finish event follows
\* the last of them whether Chat failed or not; and with Chat returning and
\* the program running the finish event occurs.
C32_ResponseIsTokensThenError == []Delivery(SentValues) /\ FinishOccurs

\* A turn of two tokens that Chat ended with an error has had its finish
\* event.
C32_Witness ==
    /\ Len(tui.chans) >= 1
    /\ Finished(1)
    /\ Len(tui.chans[1].produced) = 2
    /\ tui.chans[1].failed
    /\ tui.chans[1].finishes = 1

\* C33: in every interleaving of tool calls and scheduler steps, a stored
\* task with reminded = true has start_time <= now.
C33_RemindedOnlyWhenDue ==
    \A id \in DOMAIN db.rows :
        db.rows[id].reminded => db.rows[id].start_time <= now

\* Task id stays in the store, not completed, with start_time s, and s has come.
Stays(id, s) ==
    /\ id \in DOMAIN db.rows
    /\ db.rows[id].status # StatusCompleted
    /\ db.rows[id].start_time = s
    /\ now >= s

\* The scheduler has notified task id in the batch of a poll that read
\* start_time s.
NotifiedWindow(id, s) ==
    /\ \E i \in 1..Len(sched.done) : sched.done[i].id = id
    /\ \E j \in 1..Len(sched.polled) :
          sched.polled[j].id = id /\ sched.polled[j].start_time = s

\* C34: with the ticker firing again and again and every store and
\* notification call succeeding, a task that from some point on stays in
\* the store, not completed, at the hour it was moved to, is notified by a
\* tick that read this start_time, whatever updates the Agent Loop made.
C34_FinalWindowNotified ==
    \A id \in IDs, s \in LaterStarts :
        <>[]Stays(id, s) => <>NotifiedWindow(id, s)

\* C35: whenever the scheduler notifies a task, the task is in the store
\* at that moment and its status is not completed.
C35_NotifiesLiveTasksOnly ==
    [][(sched.pc = "batch" /\ Len(sched'.done) = Len(sched.done) + 1) =>
          LET t == Head(sched.batch)
          IN /\ t.id \in DOMAIN db.rows
             /\ db.rows[t.id].status # StatusCompleted]_vars

\* Tasks a and b of the store satisfy a.start < b.end and b.start < a.end.
Overlapping(a, b) ==
    /\ db.rows[a].start_time < db.rows[b].end_time
    /\ db.rows[b].start_time < db.rows[a].end_time

\* C36: when add_task and update_task are never called with
\* allow_overlap = true, no two distinct stored tasks overlap, in any state
\* reached by add_task, update_task, delete_task and scheduler ticks,
\* tasks with start_time >= end_time included.
C36_NoOverlapWithoutOptIn ==
    \A a, b \in DOMAIN db.rows : a # b => ~Overlapping(a, b)

\* Two tasks are stored, one of them with a window that ends before it
\* starts, after an update_task that was accepted.
C36_Witness ==
    /\ Invoked("update_task")
    /\ ~last.ret.result.isError
    /\ Cardinality(DOMAIN db.rows) = 2
    /\ \E a \in DOMAIN db.rows : db.rows[a].start_time > db.rows[a].end_time
    /\ db # prev

\* update_task was called on a stored task with neither start_time nor
\* end_time nor allow_overlap.
NoWindowGiven ==
    /\ Invoked("update_task")
    /\ {"start_time", "end_time", "allow_overlap"}
           \cap DOMAIN last.args.arguments = {}
    /\ last.args.arguments["id"].v \in DOMAIN prev.rows

\* The stored window of the updated task intersects another stored task.
StoredWindowTaken ==
    LET id == last.args.arguments["id"].v
    IN \E other \in DOMAIN prev.rows \ {id} :
          Intersect(prev.rows[other].start_time, prev.rows[other].end_time,
                    prev.rows[id].start_time, prev.rows[id].end_time)

\* C37 as stated: update_task with neither start_time nor end_time, and
\* without allow_overlap, succeeds on every existing task.
C37_FieldUpdateSucceeds ==
    NoWindowGiven => last.ret.err = Nil /\ ~last.ret.result.isError

\* C37: update_task with neither start_time nor end_time, and without
\* allow_overlap, succeeds on an existing task exactly when the task's
\* stored window intersects no other stored task; when it does the call is
\* refused with the conflict text and the store is left as it was.
C37_FieldUpdateChecksStoredWindow ==
    NoWindowGiven =>
        /\ last.ret.err = Nil
        /\ last.ret.result.isError <=> StoredWindowTaken
        /\ StoredWindowTaken =>
               /\ last.ret.result.text.msg = "Time conflict with existing task"
               /\ db = prev
        /\ ~StoredWindowTaken =>
               /\ last.ret.result.text.msg = "Task updated successfully"
               /\ Scan(db, last.args.arguments["id"].v)
                      = [Merged EXCEPT !.reminded = FALSE]

\* Marking completed a task that was added with allow_overlap = true over
\* another one was refused.
C37_Witness ==
    /\ NoWindowGiven
    /\ StoredWindowTaken
    /\ "status" \in DOMAIN last.args.arguments
    /\ last.args.arguments["status"].v = StatusCompleted
    /\ last.ret.result.isError
    /\ db.rows[last.args.arguments["id"].v].status = StatusPending

\* C38: every stored id is at least 1 and at most the last id assigned;
\* a task that enters the store during a call gets an id above every id
\* assigned before the call (prev is the store before the call),
\* so no id of a deleted task comes back; and since no stored task has id
\* 0, CheckOverlap with the exclusion id 0, as add_task calls it, finds a
\* task exactly when some stored task intersects the window.
C38_IdsGrowZeroExcludesNone ==
    /\ \A id \in DOMAIN db.rows : 1 <= id /\ id <= db.seq
    /\ db.seq >= prev.seq
    /\ \A id \in DOMAIN db.rows \ DOMAIN prev.rows : id > prev.seq
    /\ (Invoked("add_task") /\ ~last.ret.result.isError) =>
           /\ last.ret.result.text.id = prev.seq + 1
           /\ last.ret.result.text.id >= 1
           /\ DOMAIN db.rows = DOMAIN prev.rows \cup {last.ret.result.text.id}
    /\ \A w \in Windows :
           CheckOverlap(db, w[1], w[2], 0).found
              <=> \E id \in DOMAIN db.rows :
                     Intersect(db.rows[id].start_time, db.rows[id].end_time,
                               w[1], w[2])

\* add_task after the task with the highest id was deleted: the new id is
\* above the deleted one.
C38_Witness ==
    /\ Invoked("add_task")
    /\ ~last.ret.result.isError
    /\ prev.seq >= 1
    /\ prev.seq \notin DOMAIN prev.rows
    /\ last.ret.result.text.id > prev.seq
    /\ last.ret.result.text.id \in DOMAIN db.rows

\* The scheduler handles the head of its batch and Notify fails.
NotifyFails ==
    /\ sched.pc = "batch"
    /\ Len(sched'.done) = Len(sched.done) + 1
    /\ sched'.done[Len(sched'.done)].notifyErr # Nil

\* C39: when Notify fails for a task the scheduler still calls
\* MarkAsReminded on it in the same iteration and moves on to the next
\* task: with the database answering the task, if stored, is reminded
\* afterwards.  A reminded task is neither returned by GetUpcomingTasks(0)
\* nor in the batch being handled, and without an update it stays
\* reminded, so the notification is not tried again.
C39_FailedNoticeStillMarked ==
    /\ [](\A id \in DOMAIN db.rows :
             db.rows[id].reminded =>
                /\ \A n \in 1..Len(GetUpcomingTasks(db, 0).tasks) :
                       GetUpcomingTasks(db, 0).tasks[n].id # id
                /\ \A n \in 1..Len(sched.batch) : sched.batch[n].id # id)
    /\ [][NotifyFails =>
             LET id == Head(sched.batch).id
             IN /\ db' = MarkAsReminded(db, id).p
                /\ (dbOK /\ id \in DOMAIN db.rows) => db'.rows[id].reminded
                /\ sched'.batch = Tail(sched.batch)]_vars
    /\ [][\A id \in DOMAIN db.rows \cap DOMAIN db'.rows :
             db.rows[id].reminded => db'.rows[id].reminded]_vars

\* The notification of the one due task has just failed: the task is
\* reminded and GetUpcomingTasks(0) returns nothing.
C39_Witness ==
    /\ dbOK
    /\ sched.pc = "wait"
    /\ Len(sched.done) = 1
    /\ sched.done[1].notifyErr # Nil
    /\ sched.done[1].markErr = Nil
    /\ sched.done[1].id \in DOMAIN db.rows
    /\ db.rows[sched.done[1].id].reminded
    /\ db.rows[sched.done[1].id].start_time <= now
    /\ GetUpcomingTasks(db, 0).tasks = <<>>

\* The Agent Loop handles an invocation whose arguments parse and whose
\* name is not in the catalog.
DispatchesUnknownTool ==
    /\ agent.pc = "tools"
    /\ agent' # agent
    /\ Unmarshal(agent.calls[agent.i].arguments).ok
    /\ agent.calls[agent.i].name \notin Catalog

\* C40: an invocation whose name is not in the catalog (its arguments
\* parsed, so that CallTool is called) gets the error "tool not found:
\* <name>" from CallTool, and the Agent Loop appends one tool message with
\* the text "Error: tool not found: <name>" and the invocation's id; the
\* store is unchanged, the turn has not returned, and the loop is at the
\* next invocation of the response, or after the last one at the next
\* model request.
C40_UnknownToolAnswered ==
    [][DispatchesUnknownTool =>
          LET toolCall == agent.calls[agent.i]
              r == CallTool(db, toolCall.name, Unmarshal(toolCall.arguments).args)
          IN /\ r.err = "tool not found: " \o toolCall.name
             /\ r.p = db
             /\ agent'.history = Append(agent.history,
                    [role |-> RoleTool,
                     content |-> [error |-> "tool not found: " \o toolCall.name,
                                  lines |-> <<>>],
                     tool_calls |-> <<>>, tool_call_id |-> toolCall.id])
             /\ db' = db
             /\ agent'.ret = NotReturned
             /\ agent'.dispatched = agent.dispatched + 1
             /\ IF agent.i < Len(agent.calls)
                THEN agent'.pc = "tools" /\ agent'.i = agent.i + 1
                     /\ agent'.calls = agent.calls
                ELSE agent'.pc = "request"]_vars

\* After the unknown undo_task the list_tasks call of the same response was
\* answered, and the next model request carries both tool messages.
C40_Witness ==
    /\ agent.requests >= 2
    /\ \E k \in 1..(Len(agent.sent) - 1) :
          /\ agent.sent[k].role = RoleTool
          /\ agent.sent[k].content.error = "tool not found: undo_task"
          /\ agent.sent[k].tool_call_id = "call_1"
          /\ agent.sent[k + 1].role = RoleTool
          /\ agent.sent[k + 1].content.error = Nil
          /\ agent.sent[k + 1].tool_call_id = "call_2"

====
